---- MODULE Spec2Model ----
(***************************************************************************)
(* Memo Filler Service (src/main.py): the deal-fill path                   *)
(*   fill_from_deal_endpoint -> _run_fill_from_deal ->                     *)
(*   DealInputToSchemaMapper(deal).transform() -> fill_template            *)
(*   (flatten_schema_for_template, escape_jinja_syntax, image merge,       *)
(*   _ensure_items_on_dicts, _DictWithItemsList wrapping, render) ->       *)
(*   get_unique_output_key -> upload_to_s3.                                *)
(*                                                                         *)
(* Python values are tagged records.  A string is a sequence of tokens: a  *)
(* token is one of the characters the code inspects ("{", "}", "%", " ")   *)
(* or an opaque chunk of other characters.  A dict is an ordered sequence  *)
(* of <<key, value>> pairs (Python dicts keep insertion order).  Exc is    *)
(* the outcome of an expression that raises: it poisons every value built  *)
(* from it, and a handler whose result contains Exc has raised.            *)
(***************************************************************************)
EXTENDS Integers, Sequences, FiniteSets, TLC

VARIABLES
    request,      \* the HTTP request: [body, q_output_key]
    pc,           \* position of the handler
    loc,          \* locals of the endpoint and of _run_fill_from_deal
    mapper,       \* the DealInputToSchemaMapper instance (its self._* fields)
    schema_data,  \* the mapping transform() returned
    ctx,          \* flat_data / context inside fill_template
    pre_items,    \* the context as it was handed to _ensure_items_on_dicts
    stages,       \* the stages run so far, in order
    s3,           \* keys of the objects in the bucket
    response      \* the HTTP response: [status, detail], or NoResponse

vars == <<request, pc, loc, mapper, schema_data, ctx, pre_items, stages, s3, response>>

-----------------------------------------------------------------------------
(* Python values *)

None == [t |-> "none"]
Exc == [t |-> "exc"]
Bool(b) == [t |-> "bool", b |-> b]
Num(n) == [t |-> "num", n |-> n]
\* an int beyond the range of float, such as 10**400: float() of it raises
\* OverflowError
BigInt == [t |-> "bignum"]
Str(s) == [t |-> "str", s |-> s]
S(tok) == [t |-> "str", s |-> <<tok>>]
List(xs) == [t |-> "list", xs |-> xs]
Dict(kv) == [t |-> "dict", kv |-> kv]

IsDict(v) == v.t = "dict"
IsList(v) == v.t = "list"
IsStr(v) == v.t = "str"
IsNumber(v) == v.t \in {"num", "bool"}

\* bool(v)
Truthy(v) ==
    CASE v.t = "none" -> FALSE
      [] v.t = "exc" -> FALSE
      [] v.t = "bool" -> v.b
      [] v.t = "num" -> v.n # 0
      [] v.t = "str" -> v.s # <<>>
      [] v.t = "list" -> v.xs # <<>>
      [] v.t = "dict" -> v.kv # <<>>
      [] OTHER -> TRUE

\* F(v) with v evaluated before F is entered, as Python evaluates the operand
\* of a call or the right-hand side of an assignment before it goes on
Then(v, F(_)) == CHOOSE r \in {F(x) : x \in {v}} : TRUE

\* a or b
Or(a, b) == IF a = Exc THEN Exc ELSE IF Truthy(a) THEN a ELSE b

\* k in d
Has(d, k) == \E i \in DOMAIN d.kv : d.kv[i][1] = k

\* d.get(k, dflt); AttributeError when d has no .get
GetD(d, k, dflt) ==
    IF d.t \notin {"dict", "wrapped"} THEN Exc
    ELSE IF Has(d, k) THEN d.kv[CHOOSE i \in DOMAIN d.kv : d.kv[i][1] = k][2]
    ELSE dflt

\* d.get(k)
Get(d, k) == GetD(d, k, None)

\* d[k] = v
Put(d, k, v) ==
    IF Has(d, k)
    THEN [d EXCEPT !.kv = [i \in DOMAIN d.kv |-> IF d.kv[i][1] = k THEN <<k, v>> ELSE d.kv[i]]]
    ELSE [d EXCEPT !.kv = Append(d.kv, <<k, v>>)]

\* the values a for loop over v visits; TypeError for a value that is not iterable
Iter(v) ==
    CASE v.t = "list" -> v.xs
      [] v.t = "dict" -> [i \in DOMAIN v.kv |-> S(v.kv[i][1])]
      [] v.t = "str" -> [i \in DOMAIN v.s |-> S(v.s[i])]
      [] OTHER -> <<Exc>>

\* whether evaluating v raised
RECURSIVE Raised(_)
Raised(v) ==
    CASE v.t = "exc" -> TRUE
      [] v.t = "list" -> \E i \in DOMAIN v.xs : Raised(v.xs[i])
      [] v.t \in {"dict", "wrapped"} -> \E i \in DOMAIN v.kv : Raised(v.kv[i][2])
      [] OTHER -> FALSE

-----------------------------------------------------------------------------
(* Strings *)

Whitespace == {" ", "\n"}

\* s.strip(); AttributeError when s is not a string
RECURSIVE Strip(_)
Strip(v) ==
    IF v.t # "str" THEN Exc
    ELSE IF v.s # <<>> /\ Head(v.s) \in Whitespace THEN Strip(Str(Tail(v.s)))
    ELSE IF v.s # <<>> /\ v.s[Len(v.s)] \in Whitespace THEN Strip(Str(SubSeq(v.s, 1, Len(v.s) - 1)))
    ELSE v

\* str(v), f"{v}"
RECURSIVE PyStr(_)
PyStr(v) ==
    LET RECURSIVE Join(_, _)
        Join(parts, i) ==
            IF i > Len(parts) THEN <<>>
            ELSE (IF i > 1 THEN <<", ">> ELSE <<>>) \o parts[i] \o Join(parts, i + 1)
    IN  CASE v.t = "exc" -> Exc
          [] v.t = "none" -> S("None")
          [] v.t = "bool" -> S(IF v.b THEN "True" ELSE "False")
          [] v.t = "num" -> S(ToString(v.n))
          [] v.t = "str" -> v
          [] v.t = "list" ->
                Str(<<"[">> \o Join([i \in DOMAIN v.xs |->
                        IF v.xs[i].t = "str" THEN <<"'">> \o v.xs[i].s \o <<"'">>
                        ELSE PyStr(v.xs[i]).s], 1) \o <<"]">>)
          [] OTHER ->
                Str(<<"{">> \o Join([i \in DOMAIN v.kv |->
                        <<"'" \o v.kv[i][1] \o "': ">> \o
                        (IF v.kv[i][2].t = "str" THEN <<"'">> \o v.kv[i][2].s \o <<"'">>
                         ELSE PyStr(v.kv[i][2]).s)], 1) \o <<"}">>)

\* a + b on strings, the pieces of an f-string
Cat(a, b) == IF a = Exc \/ b = Exc THEN Exc ELSE Str(a.s \o b.s)

\* v[:n]: TypeError on a dict or a number.  The texts of the model are shorter
\* than every n the code slices narratives with, so a string is kept whole.
Slice(v, n) ==
    CASE v.t = "list" -> List(SubSeq(v.xs, 1, IF Len(v.xs) < n THEN Len(v.xs) ELSE n))
      [] v.t = "str" -> v
      [] OTHER -> Exc

-----------------------------------------------------------------------------
(* DealInputToSchemaMapper *)

E0 == [t |-> "dict", kv |-> <<>>]
Empty == [t |-> "str", s |-> <<>>]

\* DealInputToSchemaMapper.__init__ followed by _normalize_from_layer3_shape:
\* the instance's fields.  probe is what the handler evaluates for its own sake
\* (the debug prints, memo.get("narrative_placeholders")); deal is the input
\* mapping as the constructor leaves it (line 190 writes into deal["narratives"]).
__init__(deal) ==
    LET f(k) == Or(Get(deal, k), E0)
        memo == f("deal_memo_ready")
        extracted == f("extracted_data")
        sponsor == f("sponsor")
        deal_facts == IF Truthy(f("deal_facts")) THEN f("deal_facts")
                      ELSE Or(Get(memo, "deal_facts_table"), E0)
        leverage == IF Truthy(f("leverage")) THEN f("leverage")
                    ELSE Or(Or(Get(memo, "leverage_ratios_table"),
                               Get(GetD(deal, "calculations", E0), "leverage_ratios")), E0)
        lt == Or(Get(extracted, "loan_terms"), E0)
        loan_terms == IF Truthy(f("loan_terms")) THEN f("loan_terms")
                      ELSE IF Get(lt, "data") = Exc THEN Exc
                      ELSE IF IsDict(Get(lt, "data")) THEN Get(lt, "data") ELSE Or(lt, E0)
        closing == IF Truthy(f("closing_disbursement")) THEN f("closing_disbursement")
                   ELSE Or(Or(Get(memo, "closing_disbursement"), Get(deal, "closing_disbursement")), E0)
        di == Or(Get(deal, "deal_identification"), E0)
        cover == IF ~Truthy(f("cover")) /\ Truthy(Or(Get(deal, "deal_identification"), memo))
                 THEN Dict(<< <<"property_address", GetD(di, "property_address", Empty)>>,
                              <<"credit_committee", Or(Get(di, "sponsor_names"), GetD(di, "credit_committee", Empty))>>,
                              <<"underwriting_team", GetD(di, "underwriting_team", Empty)>>,
                              <<"date", Or(GetD(di, "date", Empty),
                                           IF Get(memo, "memo_date") = Exc THEN Exc
                                           ELSE IF IsStr(Get(memo, "memo_date")) THEN Get(memo, "memo_date") ELSE Empty)>> >>)
                 ELSE f("cover")
        ps == Or(Get(memo, "property_summary"), E0)
        property == IF ~Truthy(f("property")) /\ Truthy(memo) /\ IsDict(ps)
                    THEN Dict(<< <<"name", Or(Get(ps, "property_name"), GetD(ps, "project_name", Empty))>>,
                                 <<"address", Dict(<< <<"street", GetD(ps, "address", Empty)>>, <<"city", GetD(ps, "city", Empty)>>,
                                                      <<"state", GetD(ps, "state", Empty)>>, <<"zip", GetD(ps, "zip", Empty)>> >>)>>,
                                 <<"property_type", GetD(ps, "property_type", Empty)>>,
                                 <<"building_sf", Or(Get(ps, "gla"), Get(ps, "gross_leasable_area_sf"))>>,
                                 <<"land_area_acres", Or(Get(ps, "site_size_acres"), Get(ps, "land_area_acres"))>>,
                                 <<"year_built", Get(ps, "year_built")>>,
                                 <<"occupancy_current", Get(ps, "occupancy")>> >>)
                    ELSE IF ~Truthy(f("property")) /\ Truthy(memo) /\ ps = Exc THEN Exc
                    ELSE f("property")
        placeholders == Or(Get(memo, "narrative_placeholders"), E0)
        n0 == f("narratives")
        po == Or(Get(n0, "property_overview"), Empty)
        fill == Or(Or(Get(placeholders, "property_description"), GetD(placeholders, "property_overview", Empty)), Empty)
        narratives ==
            IF placeholders = Exc THEN Exc
            ELSE IF ~Truthy(n0) /\ Truthy(placeholders)
            THEN Dict(<< <<"property_overview", Or(Get(placeholders, "property_description"), GetD(placeholders, "property_overview", Empty))>>,
                         <<"location_overview", GetD(placeholders, "location_overview", Empty)>>,
                         <<"market_overview", GetD(placeholders, "market_overview", Empty)>>,
                         <<"transaction_overview", GetD(placeholders, "deal_summary", Empty)>>,
                         <<"sponsor_narrative", GetD(placeholders, "sponsor_summary", Empty)>>,
                         <<"closing_funding_narrative", GetD(placeholders, "closing_funding_narrative", Empty)>> >>)
            ELSE IF Truthy(n0) /\ Truthy(placeholders)
            THEN IF po = Exc \/ Strip(po) = Exc THEN Exc
                 ELSE IF ~Truthy(Strip(po)) \/ Strip(po) = S("None") THEN Put(n0, "property_overview", fill)
                 ELSE n0
            ELSE n0
    IN  [ deal |-> IF Truthy(n0) /\ IsDict(n0) /\ ~Raised(narratives) THEN Put(deal, "narratives", narratives) ELSE deal,
          _cover |-> cover, _property |-> property, _deal_facts |-> deal_facts,
          _loan_terms |-> loan_terms, _leverage |-> leverage,
          _closing_disbursement |-> closing, _sponsor |-> sponsor,
          _sources_uses |-> f("sources_and_uses"), _valuation |-> f("valuation"),
          _narratives |-> narratives, _risks |-> f("risks_and_mitigants"),
          _highlights |-> f("deal_highlights"), _due_diligence |-> f("due_diligence"),
          _environmental |-> f("environmental"), _zoning |-> f("zoning"),
          _active_litigation |-> f("active_litigation"),
          _financial_info |-> f("financial_information"),
          probe |-> List(<<Get(sponsor, "name"), Get(sponsor, "guarantors"), placeholders>>) ]

\* whether the constructor raised
InitRaised(m) == \E k \in DOMAIN m : Raised(m[k])

\* str.lower() on the chunks the sanitizer compares against
Lower(tok) ==
    CASE tok \in {"None", "NONE"} -> "none"
      [] tok \in {"Null", "NULL"} -> "null"
      [] tok \in {"Undefined", "UNDEFINED"} -> "undefined"
      [] tok \in {"N/A", "N/a"} -> "n/a"
      [] tok \in {"[Not Available]", "[NOT AVAILABLE]"} -> "[not available]"
      [] OTHER -> tok

\* sep.join(parts)
RECURSIVE JoinSep(_, _)
JoinSep(parts, sep) ==
    IF parts = <<>> THEN Empty
    ELSE IF Len(parts) = 1 THEN Head(parts)
    ELSE Cat(Cat(Head(parts), S(sep)), JoinSep(Tail(parts), sep))

\* ", ".join(parts)
JoinComma(parts) == JoinSep(parts, ", ")

\* the concatenation of a sequence of sequences
RECURSIVE Concat(_)
Concat(seqs) == IF seqs = <<>> THEN <<>> ELSE Head(seqs) \o Concat(Tail(seqs))

\* an f-string of several pieces
CatAll(parts) ==
    IF \E i \in DOMAIN parts : parts[i] = Exc THEN Exc
    ELSE Str(Concat([i \in DOMAIN parts |-> parts[i].s]))

\* a sanitizer that compares the text as it came, not stripped and lower-cased
_str_or_empty_as_given(val) ==
    CASE val.t = "exc" -> Exc
      [] val.t = "none" -> Empty
      [] val.t = "str" ->
            IF val.s \in {<<"none">>, <<"null">>, <<"undefined">>, <<"[not available]">>, <<"n/a">>}
            THEN Empty ELSE Strip(val)
      [] OTHER -> PyStr(val)

_str_or_empty(val) ==
    CASE val.t = "exc" -> Exc
      [] val.t = "none" -> Empty
      [] val.t = "str" ->
            IF [i \in DOMAIN Strip(val).s |-> Lower(Strip(val).s[i])]
                 \in {<<"none">>, <<"null">>, <<"undefined">>, <<"[not available]">>, <<"n/a">>}
            THEN Empty ELSE Strip(val)
      [] val.t \in {"num", "bool"} -> PyStr(val)
      [] val.t = "list" ->
            LET kept == SelectSeq(val.xs, Truthy)
            IN  JoinComma([i \in DOMAIN kept |-> PyStr(kept[i])])
      [] OTHER -> PyStr(val)

\* the value of a numeric text, for float(val) on a string
NumericText ==
    [tok \in {"0", "950", "1250000", "35610000"} |->
        CASE tok = "0" -> 0 [] tok = "950" -> 950 [] tok = "1250000" -> 1250000 [] OTHER -> 35610000]

\* float(val) as [ok, n]: ValueError / TypeError is ok = FALSE
ToFloat(val) ==
    CASE val.t = "num" -> [ok |-> TRUE, n |-> val.n]
      [] val.t = "bool" -> [ok |-> TRUE, n |-> IF val.b THEN 1 ELSE 0]
      [] val.t = "str" /\ Len(Strip(val).s) = 1 /\ Strip(val).s[1] \in DOMAIN NumericText ->
            [ok |-> TRUE, n |-> NumericText[Strip(val).s[1]]]
      [] OTHER -> [ok |-> FALSE, n |-> 0]

\* the value of a text of digits and thousands separators, for float() on the
\* text without its commas
CurrencyText ==
    [tok \in DOMAIN NumericText \cup {"200,000", "1,000,000", "2,000,000", "9,000,000", "35,610,000"} |->
        CASE tok = "200,000" -> 200000 [] tok = "1,000,000" -> 1000000
          [] tok = "2,000,000" -> 2000000 [] tok = "9,000,000" -> 9000000
          [] tok = "35,610,000" -> 35610000
          [] OTHER -> NumericText[tok]]

\* the float it returns, or the OverflowError of float(val) at line 94, which
\* nothing catches
parse_currency_to_number(val) ==
    CASE val.t = "none" -> Num(0)
      [] val.t = "bignum" -> Exc
      [] val.t = "num" -> val
      [] val.t = "bool" -> Num(IF val.b THEN 1 ELSE 0)
      [] val.t = "str" ->
            LET cleaned == Strip(Str(SelectSeq(val.s, LAMBDA c : c \notin {"$", ",", " "}))).s
            IN  IF Len(cleaned) = 1 /\ cleaned[1] \in DOMAIN CurrencyText THEN Num(CurrencyText[cleaned[1]]) ELSE Num(0)
      [] OTHER -> Num(0)

\* f"{n:,}" for an integer n
RECURSIVE Grouped(_)
Grouped(n) ==
    IF n < 0 THEN "-" \o Grouped(0 - n)
    ELSE IF n < 1000 THEN ToString(n)
    ELSE Grouped(n \div 1000) \o "," \o
         (IF n % 1000 < 10 THEN "00" ELSE IF n % 1000 < 100 THEN "0" ELSE "") \o ToString(n % 1000)

\* numbers of the model are integers; n / 1_000_000 to two decimals rounds the
\* tenth of a thousand that is cut off (no model input lies on a tie).  The
\* OverflowError of float(val) is not among the exceptions line 202 catches.
_fmt_currency(val) ==
    LET num == ToFloat(val).n
        hundredths == (num + 5000) \div 10000
    IN  CASE val.t \in {"exc", "bignum"} -> Exc
          [] val.t = "none" -> S("N/A")
          [] val.t = "str" /\ val.s # <<>> /\ Head(val.s) = "$" -> val
          [] ~ToFloat(val).ok -> PyStr(val)
          [] num >= 1000000 ->
                Str(<<"$", Grouped(hundredths \div 100) \o "." \o
                  (IF hundredths % 100 < 10 THEN "0" ELSE "") \o ToString(hundredths % 100) \o "M">>)
          [] OTHER -> Str(<<"$", Grouped(num)>>)

_fmt_pct(val) ==
    CASE val.t \in {"exc", "bignum"} -> Exc
      [] val.t = "none" -> S("N/A")
      [] val.t = "str" /\ \E i \in DOMAIN val.s : val.s[i] = "%" -> val
      [] ~ToFloat(val).ok -> PyStr(val)
      [] OTHER -> Str(<<ToString(ToFloat(val).n) \o ".00", "%">>)

\* {"label": label, "value": value}
LV(label, value) == Dict(<< <<"label", S(label)>>, <<"value", value>> >>)

\* self._str_or_empty(v) and "N/A": the placeholder in place of the value
AndNA(v) == IF Truthy(_str_or_empty(v)) THEN S("N/A") ELSE _str_or_empty(v)

\* self._str_or_empty(v) or "N/A"
OrNA(v) == Or(_str_or_empty(v), S("N/A"))

\* the dict elements a loop over v keeps ("if not isinstance(x, dict): continue")
DictsOf(v) == SelectSeq(Iter(v), LAMBDA x : x.t \in {"dict", "exc"})

\* (text or "")[:n] if isinstance(text, str) else str(text or "")[:n]
Clip(text, n) == IF IsStr(text) THEN Slice(Or(text, Empty), n) ELSE Slice(PyStr(Or(text, Empty)), n)

_build_cover(m) ==
    LET addr == Or(Get(m._property, "address"), E0)
    IN  IF addr = Exc THEN Exc
        ELSE Dict(<< <<"memo_subtitle", S("CREDIT COMMITTEE MEMO")>>,
                     <<"memo_title", S("BRIDGE LOAN REQUEST")>>,
                     <<"property_name", _str_or_empty(Get(m._property, "name"))>>,
                     <<"property_address", _str_or_empty(Get(m._cover, "property_address"))>>,
                     <<"credit_committee", _str_or_empty(Get(m._cover, "credit_committee"))>>,
                     <<"underwriting_team", _str_or_empty(Get(m._cover, "underwriting_team"))>>,
                     <<"date", Or(_str_or_empty(Get(m._cover, "date")), S("<today>"))>> >>)

_build_transaction_overview(m) ==
    LET ir_raw == Get(m._loan_terms, "interest_rate")
        ir == IF ir_raw = Exc THEN Exc
              ELSE IF IsStr(ir_raw) THEN Dict(<< <<"description", ir_raw>>, <<"default_rate", Empty>> >>)
              ELSE IF IsDict(ir_raw) THEN ir_raw ELSE E0
        lev == m._leverage
    IN  Dict(<<
          <<"deal_facts", List(<<
              LV("Property Type", OrNA(Get(m._deal_facts, "property_type"))),
              LV("Property Name", OrNA(Get(m._property, "name"))),
              LV("Loan Purpose", OrNA(Get(m._deal_facts, "loan_purpose"))),
              LV("Loan Amount", OrNA(Get(m._deal_facts, "loan_amount"))),
              LV("Source", OrNA(Get(m._deal_facts, "source"))) >>)>>,
          <<"loan_terms", List(<<
              LV("Interest Rate", OrNA(Get(ir, "description"))),
              LV("Origination Fee", OrNA(Get(m._loan_terms, "origination_fee"))),
              LV("Exit Fee", OrNA(Get(m._loan_terms, "exit_fee"))),
              LV("Prepayment", OrNA(Get(m._loan_terms, "prepayment"))),
              LV("Guaranty", OrNA(Get(m._loan_terms, "guaranty"))) >>)>>,
          <<"leverage_metrics", List(<<
              LV("LTC at Closing", OrNA(Or(Get(lev, "fb_ltc_at_closing"), Get(lev, "ltc_at_closing")))),
              LV("LTV at Closing", OrNA(Get(lev, "ltv_at_closing"))),
              LV("LTV at Maturity", OrNA(Get(lev, "ltv_at_maturity"))),
              LV("Debt Yield", OrNA(Or(Get(lev, "debt_yield_fully_drawn"), Get(lev, "debt_yield")))) >>)>> >>)

_build_executive_summary(m) ==
    LET n0 == Or(Get(m._narratives, "transaction_overview"), Empty)
        n1 == IF n0 = Exc THEN Exc
              ELSE IF Truthy(n0) THEN n0
              ELSE Cat(Cat(S("Bridge loan request for "), PyStr(Or(Get(m._property, "name"), S("the property")))),
                       S(". See narratives for full overview."))
        narrative == IF n1 = Exc THEN Exc ELSE Clip(n1, 4000)
        items == IF Get(m._highlights, "items") = Exc THEN Exc
                 ELSE Slice(Or(Get(m._highlights, "items"), List(<<>>)), 6)
        hs == DictsOf(items)
        key_highlights == List([i \in DOMAIN hs |->
                               _str_or_empty(Or(Get(hs[i], "highlight"), Get(hs[i], "description")))])
    IN  Dict(<< <<"narrative", narrative>>,
                <<"transaction_overview", narrative>>,
                <<"key_highlights", Or(key_highlights, List(<<S("See deal highlights.")>>))>>,
                <<"recommendation", S("APPROVE - Subject to conditions")>>,
                <<"conditions", List(<<S("Standard closing conditions"),
                                       S("Satisfactory title and survey review"),
                                       S("Completion of legal documentation")>>)>> >>)

_build_sources_and_uses(m) ==
    LET t0 == Or(Get(m._sources_uses, "table"), E0)
        table == IF t0 = Exc THEN Exc ELSE IF IsDict(t0) THEN t0 ELSE E0
        ts == Or(Get(table, "total_sources"), Num(0))
        total_sources == IF ToFloat(ts).ok THEN ToFloat(ts).n ELSE 0
        srcs == DictsOf(Or(Get(table, "sources"), List(<<>>)))
        \* f"{(float(raw_amount) / total_sources) * 100:.1f}%"
        Share(a) == LET tenths == (2000 * a + total_sources) \div (2 * total_sources)
                    IN  Str(<<ToString(tenths \div 10) \o "." \o ToString(tenths % 10), "%">>)
        Source(item) ==
            LET raw_amount == Get(item, "amount")
            IN  Dict(<< <<"label", Or(Or(Get(item, "label"), Get(item, "item")), S("Source"))>>,
                        <<"amount", _fmt_currency(raw_amount)>>,
                        <<"percent", IF total_sources # 0 /\ raw_amount.t \notin {"none", "exc"} /\ ToFloat(raw_amount).ok
                                     THEN Share(ToFloat(raw_amount).n)
                                     ELSE _fmt_pct(Get(item, "rate_pct"))>> >>)
        sources == [i \in DOMAIN srcs |-> IF srcs[i] = Exc THEN Exc ELSE Source(srcs[i])]
        cats == DictsOf(Or(Get(table, "uses"), List(<<>>)))
        UsesOf(cat) ==
            LET its == DictsOf(Or(Get(cat, "items"), List(<<>>)))
            IN  [j \in DOMAIN its |->
                    Dict(<< <<"label", Or(Or(Get(its[j], "label"), Get(its[j], "item")), S("Use"))>>,
                            <<"amount", _fmt_currency(Get(its[j], "amount"))>>,
                            <<"release_conditions", GetD(cat, "category", Empty)>> >>)]
        RECURSIVE AllUses(_)
        AllUses(i) == IF i > Len(cats) THEN <<>> ELSE UsesOf(cats[i]) \o AllUses(i + 1)
        uses == AllUses(1)
    IN  IF table = Exc THEN Exc
        ELSE Dict(<< <<"fairbridge_sources_uses", Dict(<<
                <<"sources", IF sources # <<>> THEN List(sources)
                             ELSE List(<<Dict(<< <<"label", S("TBD")>>, <<"amount", S("TBD")>>, <<"percent", S("TBD")>> >>)>>)>>,
                <<"uses", IF uses # <<>> THEN List(uses)
                          ELSE List(<<Dict(<< <<"label", S("TBD")>>, <<"amount", S("TBD")>>, <<"release_conditions", S("TBD")>> >>)>>)>> >>)>> >>)

_build_property(m) ==
    LET P(k) == Get(m._property, k)
        PD(k) == GetD(m._property, k, S("N/A"))
        a0 == Or(P("address"), E0)
        addr == IF a0 = Exc THEN Exc ELSE IF IsDict(a0) THEN a0 ELSE E0
        n0 == Or(Get(m._narratives, "property_overview"), Empty)
        n1 == IF n0 = Exc THEN Exc
              ELSE IF IsStr(n0) /\ Strip(n0) = S("None") THEN Empty ELSE n0
        n2 == IF n1 = Exc THEN Exc
              ELSE IF Truthy(n1) THEN n1
              ELSE CatAll(<<PyStr(Or(P("name"), S("The property"))), S(" is located at "),
                             PyStr(GetD(addr, "street", Empty)), S(", "),
                             PyStr(GetD(addr, "city", Empty)), S(", "),
                             PyStr(GetD(addr, "state", Empty)), S(". "),
                             PyStr(Or(P("building_sf"), S("N/A"))), S(" SF, "),
                             PyStr(Or(P("land_area_acres"), S("N/A"))), S(" acres.")>>)
        yb == P("year_built")
        year_built_str ==
            IF yb = Exc THEN Exc
            ELSE IF IsList(yb) THEN JoinComma([i \in DOMAIN yb.xs |-> PyStr(yb.xs[i])])
            ELSE IF yb # None THEN PyStr(yb) ELSE S("N/A")
        bsf == P("building_sf")
        bsf_str == IF bsf = Exc THEN Exc
                   ELSE IF bsf.t = "num" THEN S(Grouped(bsf.n) \o " SF")
                   ELSE IF bsf.t = "bool" THEN Cat(PyStr(bsf), S(" SF"))
                   ELSE IF bsf # None THEN PyStr(bsf) ELSE S("N/A")
        Pct(k) == IF P(k) = Exc THEN Exc
                  ELSE IF P(k) # None THEN Cat(PyStr(P(k)), S("%")) ELSE S("N/A")
        d0 == IF n2 = Exc THEN Exc ELSE Clip(n2, 5000)
        desc == IF d0 = S("None") THEN Empty ELSE d0
    IN  Dict(<< <<"description_narrative", desc>>,
                <<"metrics", List(<<
                    LV("Property Name", PD("name")),
                    LV("Property Type", PD("property_type")),
                    LV("Land Area", Cat(PyStr(PD("land_area_acres")), S(" acres"))),
                    LV("Building SF", bsf_str),
                    LV("Year Built", year_built_str),
                    LV("Year Renovated", PyStr(PD("year_renovated"))),
                    LV("Condition", PD("condition")),
                    LV("Current Occupancy", Pct("occupancy_current")),
                    LV("Stabilized Occupancy", Pct("occupancy_stabilized")),
                    LV("Anchor Tenants", PD("anchor_tenants")) >>)>> >>)

\* the narrative of the location and market sections: the deal's text or the fallback
SectionNarrative(m, key, fallback) ==
    LET n0 == Or(Get(m._narratives, key), Empty)
    IN  IF n0 = Exc THEN Exc
        ELSE IF Truthy(n0) THEN Clip(n0, 4000) ELSE Clip(fallback, 4000)

_build_location(m) ==
    LET addr == Or(Get(m._property, "address"), E0)
    IN  Dict(<< <<"narrative", SectionNarrative(m, "location_overview",
            CatAll(<<S("The property is located in "),
                     PyStr(GetD(addr, "city", Empty)), S(", "),
                     PyStr(GetD(addr, "county", Empty)), S(", "),
                     PyStr(GetD(addr, "state", Empty)),
                     S(". See appraisal for detailed location analysis.")>>))>> >>)

_build_market(m) ==
    Dict(<< <<"narrative", SectionNarrative(m, "market_overview",
            S("Market analysis indicates favorable conditions. Please refer to the appraisal for detailed market analysis."))>> >>)

\* f"${acq_price:,.0f}" for a non-zero number, else the sanitized value
AcqPrice(v) ==
    IF v = Exc THEN Exc
    ELSE IF Truthy(v) /\ IsNumber(v) THEN Str(<<"$", Grouped(ToFloat(v).n)>>) ELSE _str_or_empty(v)

\* collab_ventures.get("items") or collab_ventures.get("ventures") or [], a single
\* mapping taken as a list of one
Ventures(deal) ==
    LET cv == Or(Get(deal, "collaborative_ventures"), E0)
        vs == Or(Or(Get(cv, "items"), Get(cv, "ventures")), List(<<>>))
    IN  IF vs = Exc THEN <<Exc>> ELSE IF IsDict(vs) THEN <<vs>> ELSE DictsOf(vs)

_build_sponsorship(m) ==
    LET guarantors == Or(Get(m._sponsor, "guarantors"), E0)
        p0 == Or(Get(m._sponsor, "principals"), List(<<>>))
        principals == IF p0 = Exc THEN <<Exc>> ELSE IF IsDict(p0) THEN <<p0>> ELSE Iter(p0)
        names == Iter(Or(Get(guarantors, "names"), List(<<>>)))
        sponsors == [i \in DOMAIN names |->
                        IF names[i] = Exc THEN Exc
                        ELSE Dict(<< <<"name", names[i]>>,
                                     <<"net_worth", Get(guarantors, "combined_net_worth")>>,
                                     <<"liquidity", None>> >>)]
        sn == GetD(guarantors, "names", List(<<>>))
        Amp(xs) == LET RECURSIVE J(_)
                       J(i) == IF i > Len(xs) THEN Empty
                               ELSE IF i = Len(xs) THEN PyStr(xs[i])
                               ELSE Cat(Cat(PyStr(xs[i]), S(" & ")), J(i + 1))
                   IN  J(1)
        display_name ==
            IF Get(m._sponsor, "name") = Exc THEN Exc
            ELSE IF Truthy(Get(m._sponsor, "name")) THEN Get(m._sponsor, "name")
            ELSE IF sn = Exc THEN Exc
            ELSE IF Truthy(sn) THEN Amp(Iter(sn)) ELSE S("See sponsor details")
        overview == GetD(m._narratives, "sponsor_narrative", Empty)
        ps == SelectSeq(principals, LAMBDA p : p = Exc \/ (IsDict(p) /\ Truthy(GetD(p, "name", Empty))))
        Bio(p, sponsor_display_name) ==
            LET cs == Get(p, "credit_score")
                csd == GetD(p, "credit_score_date", Empty)
                cnt == GetD(p, "sreo_property_count", Empty)
                val == GetD(p, "sreo_total_value", Empty)
                parts == (IF Truthy(cnt) THEN <<Cat(PyStr(cnt), S(" properties"))>> ELSE <<>>) \o
                         (IF Truthy(val) THEN <<Cat(PyStr(val), S(" value"))>> ELSE <<>>)
            IN  Dict(<< <<"name", GetD(p, "name", Empty)>>,
                        <<"title", Or(_str_or_empty(Get(p, "title")), S("Principal"))>>,
                        <<"company", Or(_str_or_empty(Get(p, "company")), sponsor_display_name)>>,
                        <<"credit_score", IF ~Truthy(cs) THEN Empty
                                          ELSE IF Truthy(csd) THEN Cat(Cat(Cat(PyStr(cs), S(" (")), PyStr(csd)), S(")"))
                                          ELSE PyStr(cs)>>,
                        <<"net_worth", _str_or_empty(Get(p, "net_worth"))>>,
                        <<"liquid_assets", _str_or_empty(Get(p, "liquid_assets"))>>,
                        <<"sreo_summary", JoinComma(parts)>>,
                        <<"experience", _str_or_empty(Get(p, "experience"))>>,
                        <<"notable_projects", _str_or_empty(Get(p, "notable_projects"))>>,
                        <<"civic_involvement", _str_or_empty(Get(p, "civic_involvement"))>> >>)
        Bios(named, sponsor_display_name) ==
            [i \in DOMAIN named |-> IF named[i] = Exc THEN Exc ELSE Bio(named[i], sponsor_display_name)]
        G(k, label) == IF Truthy(Get(guarantors, k)) THEN <<LV(label, _str_or_empty(Get(guarantors, k)))>> ELSE <<>>
        fs == G("combined_net_worth", "Combined Net Worth") \o
              G("combined_cash_position", "Combined Cash Position") \o
              G("combined_securities_holdings", "Combined Securities Holdings")
        vs == Ventures(m.deal)
        Addr(v) == _str_or_empty(Or(Or(Or(Get(v, "property_address"), Get(v, "address")), Get(v, "property_name")), Empty))
        Record(v, property, price) ==
            IF v = Exc \/ Raised(property) \/ Raised(price) THEN Exc
            ELSE Dict(<< <<"property", property>>,
                         <<"acquisition_date", _str_or_empty(Or(Or(Get(v, "acquisition_date"), Get(v, "acquisition_period")), Empty))>>,
                         <<"acquisition_price", price>>,
                         <<"outcome", _str_or_empty(Or(Or(Get(v, "status"), Get(v, "outcome")), Empty))>> >>)
        \* a venture without an address is skipped
        records == SelectSeq([i \in DOMAIN vs |-> IF vs[i] = Exc THEN Exc
                                                  ELSE Record(vs[i], Addr(vs[i]), AcqPrice(Get(vs[i], "acquisition_price")))],
                             LAMBDA r : r = Exc \/ Truthy(Get(r, "property")))
        Section(sponsor_display_name, sponsor_bios, track_record) ==
             Dict(<< <<"name", sponsor_display_name>>,
                     <<"table", Or(Get(m._sponsor, "table"), List(<<>>))>>,
                     <<"overview", sponsor_display_name>>,
                     <<"overview_narrative", IF overview = Exc THEN Exc
                                             ELSE IF Truthy(overview) THEN Slice(overview, 3000)
                                             ELSE sponsor_display_name>>,
                     <<"sponsor_bios", List(sponsor_bios)>>,
                     <<"financial_summary", IF fs # <<>> THEN List(fs)
                                            ELSE List(<<LV("Financial Summary", S("See sponsor documentation"))>>)>>,
                     <<"track_record", IF track_record # <<>> THEN List(track_record)
                                       ELSE List(<<Dict(<< <<"property", S("See sponsor documentation")>>,
                                                           <<"acquisition_date", S("-")>>,
                                                           <<"acquisition_price", S("-")>>,
                                                           <<"outcome", S("-")>> >>)>>)>>,
                     <<"_sponsors_detail", List(sponsors)>> >>)
    IN  IF guarantors = Exc \/ Get(guarantors, "names") = Exc THEN Exc
        ELSE Section(display_name, Bios(ps, display_name), records)

\* one formatted venture, as _build_collaborative_ventures and transform's own
\* loop (lines 986-1005) both build it
VentureItem(v) ==
    Dict(<< <<"location", _str_or_empty(Get(v, "property_address"))>>,
            <<"name", _str_or_empty(Get(v, "property_address"))>>,
            <<"property_address", _str_or_empty(Get(v, "property_address"))>>,
            <<"acquisition_date", _str_or_empty(Or(Get(v, "acquisition_date"), Get(v, "acquisition_period")))>>,
            <<"acquisition_price", AcqPrice(Get(v, "acquisition_price"))>>,
            <<"description", _str_or_empty(Get(v, "description"))>>,
            <<"status", _str_or_empty(Get(v, "status"))>> >>)

_build_collaborative_ventures(m) ==
    LET vs == Ventures(m.deal)
    IN  Dict(<< <<"items", List([i \in DOMAIN vs |-> VentureItem(vs[i])])>>,
                <<"property_map", Or(Get(Or(Get(m.deal, "collaborative_ventures"), E0), "property_map"), Empty)>> >>)

_build_risks_and_mitigants(m) ==
    LET rs == IF Get(m._risks, "items") = Exc THEN <<Exc>>
              ELSE DictsOf(Or(Get(m._risks, "items"), List(<<>>)))
        Item(r) == Dict(<< <<"title", Or(Get(r, "title"), GetD(r, "risk", S("Risk")))>>,
                           <<"risk_description", GetD(r, "description", Empty)>>,
                           <<"mitigation", GetD(r, "mitigant", Empty)>>,
                           <<"category", Or(Get(r, "title"), GetD(r, "risk", S("Risk")))>>,
                           <<"score", S("Moderate")>>,
                           <<"risk", GetD(r, "description", Empty)>>,
                           <<"mitigant", GetD(r, "mitigant", Empty)>> >>)
        risk_items == [i \in DOMAIN rs |-> IF rs[i] = Exc THEN Exc ELSE Item(rs[i])]
        narrative == Or(Get(m._narratives, "risks_mitigants_narrative"), Empty)
        default_item == Dict(<< <<"title", S("General Risk Assessment")>>,
                                <<"risk_description", S("See risks and mitigants narrative for details.")>>,
                                <<"mitigation", S("See narrative.")>>,
                                <<"category", S("General")>>,
                                <<"score", S("Moderate")>>,
                                <<"risk", S("See risks and mitigants.")>>,
                                <<"mitigant", S("See narrative.")>> >>)
        risk_list == IF risk_items # <<>> THEN List(risk_items) ELSE List(<<default_item>>)
    IN  Dict(<< <<"overall_risk_score", S("MODERATE")>>,
                <<"recommendation_narrative",
                    IF narrative = Exc THEN Exc
                    ELSE IF Truthy(narrative) THEN Slice(narrative, 2000)
                    ELSE S("Based on the analysis, this transaction presents acceptable risk levels for Fairbridge.")>>,
                <<"risk_items", risk_list>>,
                <<"items", risk_list>> >>)

_build_validation_flags ==
    Dict(<< <<"summary", Dict(<< <<"total_checks", Num(7)>>, <<"passed", Num(7)>>,
                                 <<"warnings", Num(0)>>, <<"failed", Num(0)>> >>)>>,
            <<"critical_flags", List(<<>>)>>,
            <<"warning_flags", List(<<>>)>> >>)

_build_third_party_reports(m) ==
    LET recs == Or(Get(m._environmental, "historical_recs"), List(<<>>))
    IN  Dict(<<
          <<"appraisal", Dict(<<
              <<"firm", OrNA(Get(m._due_diligence, "appraisal_company"))>>,
              <<"appraiser", OrNA(Get(m._due_diligence, "appraisal_firm"))>>,
              <<"effective_date", S("N/A")>>,
              <<"as_is_value", OrNA(Get(m._valuation, "as_is_value"))>>,
              <<"stabilized_value", OrNA(Get(m._valuation, "as_stabilized_value"))>>,
              <<"cap_rate", OrNA(Get(m._valuation, "cap_rate"))>> >>)>>,
          <<"environmental", Dict(<<
              <<"firm", OrNA(Get(m._environmental, "firm"))>>,
              <<"report_date", OrNA(Get(m._environmental, "report_date"))>>,
              <<"current_recs", IF recs.t \in {"list", "dict", "str"} THEN S(ToString(Len(Iter(recs)))) ELSE Exc>>,
              <<"phase_ii_required", S("No")>>,
              <<"findings", Slice(OrNA(Get(m._environmental, "findings_summary")), 500)>> >>)>>,
          <<"pca", Dict(<<
              <<"firm", OrNA(Get(m._due_diligence, "pca_firm"))>>,
              <<"report_date", S("N/A")>>,
              <<"summary", Or(_str_or_empty(Get(m._narratives, "pca_narrative")),
                              S("See property condition assessment."))>> >>)>> >>)

_build_zoning_entitlements(m) ==
    LET n0 == Or(Get(m._narratives, "zoning_narrative"), Empty)
        narrative == IF n0 = Exc THEN Exc
                     ELSE IF Truthy(n0) THEN n0
                     ELSE Cat(Cat(Cat(S("Current zoning: "), PyStr(Or(Get(m._zoning, "zone_code"), S("N/A")))), S(". ")),
                              PyStr(Or(Get(m._zoning, "highest_best_use_improved"), Empty)))
    IN  Dict(<< <<"summary_narrative", IF narrative = Exc THEN Exc ELSE Clip(narrative, 3000)>>,
                <<"current_zoning", OrNA(Get(m._zoning, "zone_code"))>>,
                <<"proposed_zoning", S("See redevelopment")>>,
                <<"entitlement_status", S("See zoning narrative")>>,
                <<"exists", Bool(Truthy(m._zoning))>> >>)

_build_table_strings(m) ==
    LET Row(d, key, label) ==
            IF Truthy(Get(d, key))
            THEN <<Cat(Cat(S("| " \o label \o " | "), _str_or_empty(Get(d, key))), S(" |"))>>
            ELSE <<>>
        Table(header, rows) ==
            IF rows = <<>> THEN Empty ELSE Cat(Str(<<header, "\n", "|---|---|", "\n">>), JoinSep(rows, "\n"))
        financials == Or(Or(Get(m.deal, "financials"), Get(GetD(m.deal, "property", E0), "financials")), E0)
        valuation == Or(Or(m._valuation, Get(m.deal, "valuation")), E0)
        default_scenario == Or(Or(Get(m.deal, "default_scenario"), Get(m.deal, "foreclosure_analysis")), E0)
        comps == Or(Or(Get(m.deal, "comparable_sales"), Get(m.deal, "comps")), List(<<>>))
        cs == IF IsList(comps) THEN SelectSeq(Slice(comps, 5).xs, IsDict) ELSE <<>>
        comp_rows == [i \in DOMAIN cs |->
            Cat(Cat(Cat(Cat(Cat(Cat(S("| "), PyStr(GetD(cs[i], "address", S("N/A")))), S(" | ")),
                PyStr(GetD(cs[i], "sale_price", S("N/A")))), S(" | ")),
                PyStr(GetD(cs[i], "date", S("N/A")))), S(" |"))]
    IN  IF financials = Exc \/ (Truthy(financials) /\ ~IsDict(financials)) \/ ~IsDict(valuation)
        THEN Exc
        ELSE Dict(<<
            <<"income_statement_table", Table("| Metric | Value |",
                Row(financials, "effective_gross_income", "Effective Gross Income") \o
                Row(financials, "operating_expenses", "Operating Expenses") \o
                Row(financials, "net_operating_income", "Net Operating Income"))>>,
            <<"dcf_table", Table("| Component | Value |",
                Row(valuation, "dcf_value", "DCF Value") \o
                Row(valuation, "terminal_cap_rate", "Terminal Cap") \o
                Row(valuation, "discount_rate", "Discount Rate"))>>,
            <<"property_value_table", Table("| Component | Value |",
                Row(valuation, "as_is_value", "As-Is Value") \o
                Row(valuation, "as_stabilized_value", "Stabilized Value") \o
                Row(valuation, "land_value", "Land Value"))>>,
            <<"default_interest_scenario_table",
                IF Truthy(default_scenario) THEN S("See foreclosure analysis narrative.") ELSE Empty>>,
            <<"comps_table",
                IF comp_rows = <<>> THEN Empty
                ELSE Cat(Str(<<"| Address | Price | Date |", "\n", "|---|---|---|", "\n">>), JoinSep(comp_rows, "\n"))>> >>)

_build_foreclosure_analysis(m) ==
    LET rows == List([q \in 1..8 |-> Dict(<<
                    <<"Quarter", S("Q" \o ToString(q))>>, <<"Beginning_Balance", S("TBD")>>,
                    <<"Legal_Fees", S("TBD")>>, <<"Taxes", S("TBD")>>, <<"Insurance", S("TBD")>>,
                    <<"Total_Carrying_Costs", S("TBD")>>, <<"Interest_Accrued", S("TBD")>>,
                    <<"Ending_Balance", S("TBD")>>, <<"Property_Value", S("TBD")>>, <<"LTV", S("TBD")>> >>)])
        deal_fa == Or(Get(m.deal, "foreclosure_analysis"), E0)
        Scenario(sc) == Dict(<< <<"rows", GetD(sc, "rows", rows)>>,
                                <<"assumptions", GetD(sc, "assumptions", E0)>>,
                                <<"metrics", GetD(sc, "metrics", E0)>> >>)
        scenario_default == IF IsDict(deal_fa)
            THEN Scenario(Or(Or(Get(deal_fa, "default_interest_scenario"), Get(deal_fa, "scenario_default_rate")), E0))
            ELSE Scenario(E0)
        scenario_note == IF IsDict(deal_fa)
            THEN Scenario(Or(Or(Get(deal_fa, "note_rate_scenario"), Get(deal_fa, "scenario_note_rate")), E0))
            ELSE Scenario(E0)
    IN  Dict(<< <<"scenario_default_rate", scenario_default>>,
                <<"scenario_note_rate", scenario_note>>,
                <<"default_interest_scenario", scenario_default>>,
                <<"note_interest_scenario", scenario_note>> >>)

_build_litigation(m) ==
    LET lit == m._active_litigation
        has_litigation == Truthy(Get(lit, "exists"))
        n0 == Or(Get(m._narratives, "litigation_narrative"), Empty)
        cs == Iter(Or(Get(lit, "cases"), List(<<>>)))
        F(c, a, b) == _str_or_empty(Or(Get(c, a), Get(c, b)))
    IN  IF Get(lit, "exists") = Exc THEN Exc
        ELSE Dict(<< <<"has_litigation", Bool(has_litigation)>>,
                     <<"narrative", IF n0 # Exc /\ ~Truthy(n0) /\ ~has_litigation
                                    THEN S("No active litigation was disclosed.") ELSE n0>>,
                     <<"cases", List([i \in DOMAIN cs |-> Dict(<<
                            <<"background", F(cs[i], "background", "description")>>,
                            <<"sponsor_explanation", F(cs[i], "sponsor_explanation", "borrower_explanation")>>,
                            <<"fairbridge_analysis", F(cs[i], "fairbridge_analysis", "lender_analysis")>>,
                            <<"holdback", F(cs[i], "holdback", "reserve")>> >>)])>> >>)

_build_loan_terms(m) ==
    LET lt == m._loan_terms
    IN  Dict(<< <<"narrative", Or(Get(m._narratives, "loan_terms_narrative"), Empty)>>,
                <<"detailed_terms", List(<<
                    LV("Loan Amount", _fmt_currency(Get(lt, "loan_amount"))),
                    LV("Interest Rate", _str_or_empty(Get(lt, "interest_rate"))),
                    LV("Term", _str_or_empty(Get(lt, "term"))),
                    LV("Amortization", _str_or_empty(Get(lt, "amortization"))),
                    LV("Prepayment", _str_or_empty(Get(lt, "prepayment"))),
                    LV("Recourse", _str_or_empty(Get(lt, "recourse"))),
                    LV("Origination Fee", _str_or_empty(Get(lt, "origination_fee"))),
                    LV("Exit Fee", _str_or_empty(Get(lt, "exit_fee"))) >>)>> >>)

_build_financial_analysis(m) ==
    LET fi == m._financial_info
        dy == Or(Get(fi, "debt_yield"), E0)
        metrics == <<
            LV("NOI", _fmt_currency(Get(fi, "noi"))),
            LV("Effective Gross Income", _fmt_currency(Get(fi, "effective_gross_income"))),
            LV("Operating Expenses", _fmt_currency(Get(fi, "total_operating_expenses"))),
            LV("Expense Ratio", _fmt_pct(Get(fi, "expense_ratio"))),
            LV("Debt Yield (At Closing)", _fmt_pct(Get(dy, "at_closing_pct"))),
            LV("Debt Yield (Fully Drawn)", _fmt_pct(Get(dy, "fully_drawn_pct"))) >>
    IN  Dict(<< <<"narrative", Or(Get(m._narratives, "property_value_narrative"), Empty)>>,
                <<"metrics", List(SelectSeq(metrics, LAMBDA x :
                    Get(x, "value") = Exc \/ (Truthy(Get(x, "value")) /\ Get(x, "value") # S("N/A"))))>> >>)

_build_exit_strategy(m) ==
    LET n0 == Or(Get(m._narratives, "exit_strategy"), Empty)
    IN  Dict(<< <<"narrative",
            IF n0 = Exc THEN Exc
            ELSE IF Truthy(n0) THEN n0
            ELSE Or(Get(m.deal, "exit_strategy_text"),
                    S("Exit strategy to be determined based on market conditions."))>> >>)

_build_deal_highlights(m) ==
    LET hs == DictsOf(Or(Get(m._highlights, "items"), List(<<>>)))
    IN  Dict(<< <<"highlights", List([i \in DOMAIN hs |->
            Dict(<< <<"title", _str_or_empty(Get(hs[i], "title"))>>,
                    <<"description", _str_or_empty(Get(hs[i], "description"))>> >>)])>> >>)

_build_due_diligence(m) ==
    LET dd == m._due_diligence
        Item(name, key) == Dict(<< <<"item", S(name)>>,
                                   <<"status", IF key # "" /\ Truthy(Get(dd, key)) THEN S("Received") ELSE S("Pending")>>,
                                   <<"count", Num(1)>> >>)
        checklist == << Item("Appraisal", "appraisal_firm"), Item("Phase I ESA", "environmental_firm"),
                        Item("Title Commitment", ""), Item("Survey", ""), Item("PCA Report", "pca_firm"),
                        Item("Zoning Report", ""), Item("Insurance Certificates", ""), Item("Legal Documents", "") >>
        total_received == Len(SelectSeq(checklist, LAMBDA c : Get(c, "status") = S("Received")))
    IN  IF ~IsDict(dd) THEN Exc
        ELSE Dict(<< <<"total_received", Or(Get(dd, "total_received"), Num(total_received))>>,
                     <<"total_items", Or(Get(dd, "total_items"), Num(Len(checklist)))>>,
                     <<"checklist", List(checklist)>> >>)

\* (title, sources_list, uses_list)
_build_capital_stack_flat(m) ==
    LET cs == Or(Get(m.deal, "capital_stack"), E0)
        table == IF IsDict(Get(cs, "table")) THEN Get(cs, "table") ELSE cs
        Label(x) == _str_or_empty(Or(Get(x, "item"), Get(x, "label")))
        src == DictsOf(Or(Get(table, "sources"), List(<<>>)))
        sources_list == [i \in DOMAIN src |-> Dict(<<
            <<"label", Label(src[i])>>,
            <<"amount", _fmt_currency(Get(src[i], "amount"))>>,
            <<"percent", _fmt_pct(Or(Get(src[i], "rate_pct"), Get(src[i], "percent")))>> >>)]
        cats == DictsOf(Or(Get(table, "uses"), List(<<>>)))
        ItemsOf(cat) ==
            LET items == Or(Get(cat, "items"), List(<<>>))
            IN  IF items = Exc THEN <<Exc>>
                ELSE IF ~Truthy(items) /\ (Get(cat, "item") # None \/ Get(cat, "label") # None) THEN <<cat>>
                ELSE DictsOf(items)
        Use(item, category) == Dict(<< <<"label", Label(item)>>,
                                       <<"amount", _fmt_currency(Get(item, "amount"))>>,
                                       <<"release_conditions", category>> >>)
        uses_list == Concat([i \in DOMAIN cats |->
            [j \in DOMAIN ItemsOf(cats[i]) |-> Use(ItemsOf(cats[i])[j], _str_or_empty(Get(cats[i], "category")))]])
        top == ~Raised(List(sources_list)) /\ sources_list = <<>>
               /\ Truthy(Or(Get(cs, "sources"), Get(cs, "uses")))
        top_src == DictsOf(Or(Get(cs, "sources"), List(<<>>)))
        top_use == DictsOf(Or(Get(cs, "uses"), List(<<>>)))
    IN  IF ~IsDict(cs) THEN <<Exc, Exc, Exc>>
        ELSE << Or(_str_or_empty(Get(table, "title")), S("Capital Stack at Closing")),
                List(IF top
                     THEN [i \in DOMAIN top_src |-> Dict(<<
                              <<"label", Label(top_src[i])>>,
                              <<"amount", _fmt_currency(Get(top_src[i], "amount"))>>,
                              <<"percent", _fmt_pct(Get(top_src[i], "rate_pct"))>> >>)]
                     ELSE sources_list),
                List(uses_list \o
                     (IF top THEN [i \in DOMAIN top_use |->
                                      Use(top_use[i], _str_or_empty(Get(top_use[i], "category")))]
                      ELSE <<>>)) >>

_build_disbursement_rows(m) ==
    LET cd == Or(m._closing_disbursement, E0)
        labels == << <<"payoff_existing_debt", "Payoff Existing Debt">>, <<"broker_fee", "Broker Fee">>,
                     <<"origination_fee", "Origination Fee">>, <<"closing_costs_title", "Closing Costs (Title)">>,
                     <<"lender_legal", "Lender Legal">>, <<"borrower_legal", "Borrower Legal">>,
                     <<"misc", "Misc">>, <<"interest_reserve", "Interest Reserve">>,
                     <<"total_disbursements", "Total Disbursements">>,
                     <<"sponsors_equity_at_closing", "Sponsors Equity at Closing">>,
                     <<"fairbridge_release_at_closing", "Fairbridge Release at Closing">> >>
    IN  IF ~IsDict(cd) THEN List(<<>>)
        ELSE List([i \in DOMAIN labels |->
                LV(labels[i][2], Or(_str_or_empty(Get(cd, labels[i][1])), Empty))])

\* The markdown patterns read a text character by character: '#', '*', '_', a
\* backslash, a space and a newline are tokens of their own, and every other
\* token is a piece of text that holds none of them.

\* how many tokens of s from position i on belong to cs
RECURSIVE Run(_, _, _)
Run(s, i, cs) == IF i <= Len(s) /\ s[i] \in cs THEN 1 + Run(s, i + 1, cs) ELSE 0

\* re.sub(r'^#{1,max}\s*', '', s, flags=re.MULTILINE) from position i on;
\* max = 0 stands for the pattern '^#+\s*'
RECURSIVE Headers(_, _, _)
Headers(s, i, max) ==
    IF i > Len(s) THEN <<>>
    ELSE IF s[i] = "#" /\ (i = 1 \/ s[i - 1] = "\n")
    THEN LET hashes == IF max = 0 \/ Run(s, i, {"#"}) < max THEN Run(s, i, {"#"}) ELSE max
         IN  Headers(s, i + hashes + Run(s, i + hashes, Whitespace), max)
    ELSE <<s[i]>> \o Headers(s, i + 1, max)

\* re.sub(c{lo,hi} ([^c]+) c{lo,hi}, r'\1', s) from position i on, for a
\* marker c and 1 <= lo <= hi <= 2: the markers are taken greedily, and a
\* shorter opening cannot match where the longer one failed
RECURSIVE Emphasis(_, _, _, _, _)
Emphasis(s, i, c, lo, hi) ==
    IF i > Len(s) THEN <<>>
    ELSE LET Marks(at) == IF Run(s, at, {c}) < hi THEN Run(s, at, {c}) ELSE hi
             first == i + Marks(i)
             close == first + Run(s, first, {s[j] : j \in DOMAIN s} \ {c})
         IN  IF Marks(i) >= lo /\ close > first /\ Marks(close) >= lo
             THEN SubSeq(s, first, close - 1) \o Emphasis(s, close + Marks(close), c, lo, hi)
             ELSE <<s[i]>> \o Emphasis(s, i + 1, c, lo, hi)

\* s.replace('\\' + c, c) from position i on
RECURSIVE Unescape(_, _, _)
Unescape(s, i, c) ==
    IF i > Len(s) THEN <<>>
    ELSE IF s[i] = "\\" /\ i < Len(s) /\ s[i + 1] = c THEN <<c>> \o Unescape(s, i + 2, c)
    ELSE <<s[i]>> \o Unescape(s, i + 1, c)

\* re.sub(r'\n{3,}', '\n\n', s) from position i on
RECURSIVE Newlines(_, _)
Newlines(s, i) ==
    IF i > Len(s) THEN <<>>
    ELSE IF Run(s, i, {"\n"}) >= 3 THEN <<"\n", "\n">> \o Newlines(s, i + Run(s, i, {"\n"}))
    ELSE <<s[i]>> \o Newlines(s, i + 1)

\* re.sub(r'^\[GENERATED\]\s*', '', s)
Generated(s) ==
    IF s # <<>> /\ s[1] = "[GENERATED]" THEN SubSeq(s, 2 + Run(s, 2, Whitespace), Len(s)) ELSE s

\* DealInputToSchemaMapper._strip_markdown
_strip_markdown(text) ==
    IF text = Exc THEN Exc
    ELSE IF ~IsStr(text) THEN (IF Truthy(text) THEN PyStr(text) ELSE Empty)
    ELSE Strip(Str(Newlines(Unescape(Unescape(Unescape(
            Emphasis(Emphasis(Headers(text.s, 1, 6), 1, "*", 1, 2), 1, "_", 1, 2),
            1, "#"), 1, "*"), 1, "_"), 1)))

\* the module-level strip_markdown of the Layer 3 preprocessing; re.sub on a
\* value that is no text is a TypeError
strip_markdown(text) ==
    IF text = Exc THEN Exc
    ELSE IF ~Truthy(text) THEN text
    ELSE IF ~IsStr(text) THEN Exc
    ELSE Strip(Str(Generated(
            Emphasis(Emphasis(Emphasis(Emphasis(Headers(text.s, 1, 0), 1, "*", 2, 2), 1, "_", 2, 2),
                              1, "*", 1, 1), 1, "_", 1, 1))))
-----------------------------------------------------------------------------
(* DealInputToSchemaMapper.transform *)

\* out[k] = v for each <<k, v>> of kvs, in order: a key keeps the place of its
\* first assignment and the value of its last
PutAll(d, kvs) ==
    LET Last(k) == kvs[CHOOSE i \in DOMAIN kvs : kvs[i][1] = k /\ \A j \in DOMAIN kvs : kvs[j][1] = k => j <= i][2]
        Written(k) == \E i \in DOMAIN kvs : kvs[i][1] = k
        first == SelectSeq([i \in DOMAIN kvs |-> i],
                           LAMBDA i : ~Has(d, kvs[i][1]) /\ \A j \in 1..(i - 1) : kvs[j][1] # kvs[i][1])
    IN  Dict([i \in DOMAIN d.kv |-> IF Written(d.kv[i][1]) THEN <<d.kv[i][1], Last(d.kv[i][1])>> ELSE d.kv[i]]
             \o [j \in DOMAIN first |-> <<kvs[first[j]][1], Last(kvs[first[j]][1])>>])

\* "if key not in out: out[key] = val" for each item of src; AttributeError when
\* src has no .items()
PutNew(d, src) ==
    IF ~IsDict(src) THEN Put(d, "<raised>", Exc)
    ELSE Dict(d.kv \o SelectSeq(src.kv, LAMBDA e : ~Has(d, e[1])))

\* a flatten that assigns every section field to the root, whatever the root holds
PutPairsOverwriting(d, kvs) == PutAll(d, kvs)

\* PutNew for a sequence of pairs in which a key may come more than once
PutNewPairs(d, kvs) ==
    LET first == SelectSeq([i \in DOMAIN kvs |-> i],
                           LAMBDA i : ~Has(d, kvs[i][1]) /\ \A j \in 1..(i - 1) : kvs[j][1] # kvs[i][1])
    IN  Dict(d.kv \o [n \in DOMAIN first |-> kvs[first[n]]])

\* {k: self._str_or_empty(v) for k, v in d.items()}
StrVals(d) == IF ~IsDict(d) THEN Exc ELSE Dict([i \in DOMAIN d.kv |-> <<d.kv[i][1], _str_or_empty(d.kv[i][2])>>])

\* dict(v) if v else {}: a copy of a mapping; the other truthy values of the
\* model (a text, a number, a list of values that are not pairs) make dict() raise
DictCopy(v) == IF v = Exc THEN Exc ELSE IF ~Truthy(v) THEN E0 ELSE IF IsDict(v) THEN v ELSE Exc

\* the "sections" mapping, lines 943-962
Sections(m) ==
    Dict(<< <<"transaction_overview", _build_transaction_overview(m)>>,
            <<"executive_summary", _build_executive_summary(m)>>,
            <<"sources_and_uses", _build_sources_and_uses(m)>>,
            <<"loan_terms", _build_loan_terms(m)>>,
            <<"property", _build_property(m)>>,
            <<"litigation", _build_litigation(m)>>,
            <<"location", _build_location(m)>>,
            <<"market", _build_market(m)>>,
            <<"sponsorship", _build_sponsorship(m)>>,
            <<"third_party_reports", _build_third_party_reports(m)>>,
            <<"financial_analysis", _build_financial_analysis(m)>>,
            <<"exit_strategy", _build_exit_strategy(m)>>,
            <<"zoning_entitlements", _build_zoning_entitlements(m)>>,
            <<"foreclosure_analysis", _build_foreclosure_analysis(m)>>,
            <<"risks_and_mitigants", _build_risks_and_mitigants(m)>>,
            <<"deal_highlights", _build_deal_highlights(m)>>,
            <<"due_diligence", _build_due_diligence(m)>>,
            <<"validation_flags", _build_validation_flags>> >>)

\* self._fmt_currency(x) if isinstance(x, (int, float)) else self._str_or_empty(x)
Amount(x) == IF IsNumber(x) THEN _fmt_currency(x) ELSE _str_or_empty(x)

\* a or b or c or ""
Or3(a, b, c) == Or(Or(Or(a, b), c), Empty)

\* lines 964-1132 of transform: the keys written before the section aliases
DirectVariables(m) ==
    LET li == Or(Get(m.deal, "loan_issues"), E0)
        Issues(k) == IF IsList(Get(li, k)) THEN Get(li, k) ELSE Or(Get(li, k), List(<<>>))
        cv == Get(m.deal, "collaborative_ventures")
        raw_items == IF IsDict(cv) THEN Or(Or(Get(cv, "items"), Get(cv, "ventures")), List(<<>>))
                     ELSE IF IsList(cv) THEN cv ELSE List(<<>>)
        Formatted(vs) == [i \in DOMAIN vs |-> VentureItem(vs[i])]
        OwnOr(own) == IF own # <<>> THEN List(own) ELSE GetD(_build_collaborative_ventures(m), "items", List(<<>>))
        rows == DictsOf(Or(Get(m._sponsor, "table"), List(<<>>)))
        sponsor_table == [i \in DOMAIN rows |-> Dict(<<
            <<"entity", Or3(Get(rows[i], "entity"), Get(rows[i], "name"), Get(rows[i], "member"))>>,
            <<"profit_pct", Or3(Get(rows[i], "profit_pct"), Get(rows[i], "profit_percentage_interest"), Get(rows[i], "profit_percentage"))>>,
            <<"membership_interest", Or(Or(Get(rows[i], "membership_interest"), Get(rows[i], "membership_units")), Empty)>>,
            <<"capital_interest", Or(Or(Get(rows[i], "capital_interest"), Get(rows[i], "capital_contribution")), Empty)>>,
            <<"capital_pct", Or3(Get(rows[i], "capital_pct"), Get(rows[i], "capital_interest_percentage"), Get(rows[i], "capital_percentage"))>> >>)]
        sources_table == Or(Get(m._sources_uses, "table"), E0)
        raw_sources == Iter(Or(Or(Get(sources_table, "sources"), Get(m._sources_uses, "sources")), List(<<>>)))
        sources == [i \in DOMAIN raw_sources |->
            IF ~IsDict(raw_sources[i]) THEN raw_sources[i]
            ELSE Dict(<< <<"name", Or3(Get(raw_sources[i], "item"), Get(raw_sources[i], "name"), Get(raw_sources[i], "label"))>>,
                         <<"amount", Amount(Get(raw_sources[i], "amount"))>>,
                         <<"percent", Or(Get(raw_sources[i], "percent"), Empty)>>,
                         <<"item", Or(Get(raw_sources[i], "item"), Empty)>> >>)]
        raw_uses == Iter(Or(Or(Get(sources_table, "uses"), Get(m._sources_uses, "uses")), List(<<>>)))
        UseRows(e) ==
            IF ~IsDict(e) THEN <<e>>
            ELSE LET nested == DictsOf(Or(Get(e, "items"), List(<<e>>)))
                 IN  [j \in DOMAIN nested |-> Dict(<<
                        <<"name", Or3(Get(nested[j], "item"), Get(nested[j], "name"), Get(nested[j], "label"))>>,
                        <<"amount", Amount(Get(nested[j], "amount"))>>,
                        <<"item", Or(Get(nested[j], "item"), Empty)>> >>)]
        uses == Concat([i \in DOMAIN raw_uses |-> UseRows(raw_uses[i])])
        total_sources == Or(Or(Get(m._sources_uses, "total_sources"), Get(m._sources_uses, "sources_total")), Get(sources_table, "total_sources"))
        total_uses == Or(Or(Get(m._sources_uses, "total_uses"), Get(m._sources_uses, "uses_total")), Get(sources_table, "total_uses"))
        Max(a, b) == IF a > b THEN a ELSE b
        cap_stack == Or(Get(m.deal, "capital_stack"), E0)
        cap_table == IF IsDict(Get(cap_stack, "table")) THEN Get(cap_stack, "table") ELSE cap_stack
        cd == Or(m._closing_disbursement, E0)
        equity_partner == Or(Get(m.deal, "equity_partner"), Empty)
        lt == Or(m._loan_terms, E0)
        ir0 == Or(Or(Get(lt, "interest_rate"), Get(m._deal_facts, "interest_rate")), Empty)
        interest_rate_raw == IF IsDict(ir0) THEN Or(Get(ir0, "description"), Empty) ELSE ir0
        Variables(cv_items, cap, sources_list, uses_list) ==
           << <<"loan_issues", Dict(<< <<"income_producing", Issues("income_producing")>>,
                                    <<"development", Issues("development")>> >>)>>,
           <<"loan_issues_income_producing", IF IsList(Get(li, "income_producing")) THEN Get(li, "income_producing") ELSE List(<<>>)>>,
           <<"loan_issues_development", IF IsList(Get(li, "development")) THEN Get(li, "development") ELSE List(<<>>)>>,
           <<"loan_issues_disclosure", Or(Get(li, "disclosure_statement"), Empty)>>,
           <<"collaborative_ventures", Dict(<< <<"items", cv_items>> >>)>>,
           <<"collaborative_ventures_list", cv_items>>,
           <<"collaborative_ventures_disclosure", IF IsDict(cv) THEN GetD(cv, "disclosure_statement", Empty) ELSE Empty>>,
           <<"capital_stack_title", cap[1]>>,
           <<"capital_stack_sources", cap[2]>>,
           <<"capital_stack_uses", cap[3]>>,
           <<"capital_stack", Dict(<< <<"title", cap[1]>>, <<"sources", cap[2]>>, <<"uses", cap[3]>> >>)>>,
           <<"sponsor_table", List(sponsor_table)>>,
           <<"sponsors", Or(Get(m._sponsor, "principals"), List(<<>>))>>,
           <<"sources_list", List(sources_list)>>,
           <<"uses_list", List(uses_list)>>,
           <<"sources_total", Amount(total_sources)>>,
           <<"uses_total", Amount(total_uses)>>,
           <<"sources_uses_max_rows", Num(Max(Max(Len(sources_list), Len(uses_list)), 1))>>,
           <<"capital_stack_sources", IF IsDict(cap_table)
                THEN Or(Or(Get(cap_table, "sources"), Get(cap_stack, "sources")), List(<<>>)) ELSE List(<<>>)>>,
           <<"capital_stack_uses", IF IsDict(cap_table)
                THEN Or(Or(Get(cap_table, "uses"), Get(cap_stack, "uses")), List(<<>>)) ELSE List(<<>>)>>,
           <<"capital_stack_total", Or(Or(Get(cap_stack, "total"), Get(cap_stack, "sources_total")), Empty)>>,
           <<"disbursement_payoff", Or(Get(cd, "payoff_existing_debt"), Empty)>>,
           <<"disbursement_broker_fee", Or(Get(cd, "broker_fee"), Empty)>>,
           <<"disbursement_origination_fee", Or(Get(cd, "origination_fee"), Empty)>>,
           <<"disbursement_closing_costs", Or(Get(cd, "closing_costs_title"), Empty)>>,
           <<"disbursement_lender_legal", Or(Get(cd, "lender_legal"), Empty)>>,
           <<"disbursement_borrower_legal", Or(Get(cd, "borrower_legal"), Empty)>>,
           <<"disbursement_misc", Or(Get(cd, "misc"), Empty)>>,
           <<"disbursement_interest_reserve", Or(Get(cd, "interest_reserve"), Empty)>>,
           <<"disbursement_total", Or(Get(cd, "total_disbursements"), Empty)>>,
           <<"disbursement_sponsor_equity", Or(Get(cd, "sponsors_equity_at_closing"), Empty)>>,
           <<"disbursement_fairbridge_release", Or(Get(cd, "fairbridge_release_at_closing"), Empty)>>,
           <<"equity_partner", IF IsDict(equity_partner) \/ IsStr(equity_partner) THEN equity_partner ELSE Empty>>,
           \* the texts of the model are shorter than the 50 / 20 characters
           \* from which the display values are cut out with a pattern
           <<"interest_rate_display", IF interest_rate_raw = Exc THEN Exc
                                      ELSE IF IsStr(interest_rate_raw) THEN Or(interest_rate_raw, S("See Loan Terms"))
                                      ELSE S("See Loan Terms")>>,
           <<"origination_fee_display", Or(Or(Get(lt, "origination_fee"), Empty), Empty)>>,
           <<"exit_fee_display", Or(Or(Get(lt, "exit_fee"), Empty), Empty)>> >>
    IN  Variables(OwnOr(Formatted(DictsOf(raw_items))), _build_capital_stack_flat(m), sources, uses)
\* {"narrative": n} if isinstance(n, str) else (n if isinstance(n, dict) else {"narrative": ""})
NarrativeDict(n) ==
    IF n = Exc THEN Exc
    ELSE IF IsStr(n) THEN Dict(<< <<"narrative", n>> >>)
    ELSE IF IsDict(n) THEN n ELSE Dict(<< <<"narrative", Empty>> >>)

\* transform(): the mapping it returns, or Exc when it raises.  Two names bound
\* to one object (a section and its root alias, a scenario and the root
\* default_interest_scenario) carry the object's final content in both places.
transform(m) ==
    LET Schema(tables, sections, direct, default_scenario, note_scenario) ==
      LET
        Sec(k) == Get(sections, k)
        financial_info0 == IF Truthy(m._financial_info) THEN << <<"financial_info", DictCopy(m._financial_info)>> >> ELSE <<>>
        rows == Get(PutAll(E0, direct), "sponsor_table").xs
        total_row ==
            LET RECURSIVE First(_)
                First(rs) ==
                    IF rs = <<>> THEN E0
                    ELSE IF ~IsStr(GetD(rs[1], "entity", Empty)) THEN Exc
                    ELSE IF GetD(rs[1], "entity", Empty).s \in {<<"TOTAL">>, <<"Total">>, <<"total">>} THEN rs[1]
                    ELSE First(Tail(rs))
            IN  First(rows)
        Total(k) == IF rows = <<>> THEN Empty ELSE GetD(total_row, k, Empty)
        cd == IF IsDict(Or(m._closing_disbursement, E0)) THEN Or(m._closing_disbursement, E0) ELSE E0
        RootOr(k) == IF Get(m.deal, k) # None THEN Get(m.deal, k) ELSE E0
        dd == IF IsDict(Or(Get(m.deal, "due_diligence"), E0)) THEN Or(Get(m.deal, "due_diligence"), E0) ELSE E0
        al0 == Or(Get(m.deal, "active_litigation"), E0)
        al1 == IF IsDict(Get(al0, "cases")) THEN Put(al0, "cases", List([i \in DOMAIN Get(al0, "cases").kv |-> Get(al0, "cases").kv[i][2]]))
               ELSE IF Get(al0, "cases") = None THEN Put(al0, "cases", List(<<>>)) ELSE al0
        cases_list == Iter(Or(Get(al1, "cases"), List(<<>>)))
        al == IF ~IsDict(al0) THEN al0
              ELSE Put(al1, "cases", List([i \in DOMAIN cases_list |->
                        IF cases_list[i] = Exc THEN Exc
                        ELSE IF IsDict(cases_list[i]) THEN StrVals(cases_list[i]) ELSE E0]))
        dh0 == Or(Get(m.deal, "deal_highlights"), E0)
        dh == IF IsDict(dh0) THEN dh0 ELSE E0
        closing_narrative == Or(Get(m._narratives, "closing_funding_narrative"), Empty)
        cfr0 == StrVals(Or(m._closing_disbursement, E0))
        lev == m._leverage
        WithTable(v, k) == IF IsDict(v) THEN Put(v, "table", GetD(tables, k, Empty)) ELSE v
        fi1 == IF financial_info0 # <<>> THEN financial_info0[1][2] ELSE E0
        raw0 == DictCopy(m._loan_terms)
        NeedsDefault(val) == val = None \/ (IsStr(val) /\ ~Truthy(Strip(val)))
        RECURSIVE Defaults(_, _)
        Defaults(d, keys) ==
            IF keys = <<>> \/ ~IsDict(d) THEN d
            ELSE Defaults(IF NeedsDefault(Get(d, keys[1])) THEN Put(d, keys[1], S("See Loan Terms narrative")) ELSE d,
                          Tail(keys))
        guarantors == Or(Get(m._sponsor, "guarantors"), E0)
        ps == DictsOf(Or(Get(m._sponsor, "principals"), List(<<>>)))
        PF(p, k) == <<k, GetD(p, k, Empty)>>
        Aliases(out1) == PutAll(out1, <<
            <<"transaction_overview", Sec("transaction_overview")>>, <<"loan_terms", Sec("loan_terms")>>,
            <<"sources_and_uses", Sec("sources_and_uses")>>, <<"sponsor", Sec("sponsorship")>>,
            <<"property", Sec("property")>>, <<"property_overview", Sec("property")>>,
            <<"property_overview_narrative", Or(Or(Get(Sec("property"), "description_narrative"), Get(Sec("property"), "narrative")), Empty)>>,
            <<"location", Sec("location")>>, <<"location_overview", Sec("location")>>,
            <<"market", Sec("market")>>, <<"market_overview", Sec("market")>>,
            <<"risks_and_mitigants", Sec("risks_and_mitigants")>>, <<"validation_flags", Sec("validation_flags")>>,
            <<"third_party_reports", Sec("third_party_reports")>>, <<"foreclosure_analysis", Sec("foreclosure_analysis")>>,
            <<"zoning_entitlements", Sec("zoning_entitlements")>>,
            <<"deal_facts", DictCopy(m._deal_facts)>>, <<"leverage", DictCopy(m._leverage)>> >>
            \o financial_info0 \o <<
            <<"guarantor_financials", GetD(Sec("sponsorship"), "financial_summary", List(<<>>))>>,
            <<"images", E0>>,
            <<"active_litigation", DictCopy(m._active_litigation)>>,
            <<"closing_funding_and_reserves", IF Truthy(closing_narrative) THEN Dict(<< <<"narrative", closing_narrative>> >>) ELSE E0>>,
            <<"sponsor_total_profit_pct", Total("profit_pct")>>,
            <<"sponsor_total_membership", Total("membership_interest")>>,
            <<"sponsor_total_capital_pct", Total("capital_pct")>>,
            <<"credit_report", Or(Get(m.deal, "credit_report"), E0)>>,
            <<"principal_financials", List([i \in DOMAIN DictsOf(Get(out1, "sponsors")) |->
                Dict(<< <<"name", GetD(DictsOf(Get(out1, "sponsors"))[i], "name", Empty)>>,
                        <<"net_worth", Get(DictsOf(Get(out1, "sponsors"))[i], "net_worth")>>,
                        <<"liquidity", Get(DictsOf(Get(out1, "sponsors"))[i], "liquidity")>> >>)])>>,
            <<"default_interest_scenario", default_scenario>>,
            <<"note_interest_scenario", note_scenario>>,
            <<"disbursement_rows", _build_disbursement_rows(m)>>,
            <<"closing_disbursement", StrVals(cd)>>,
            <<"rent_roll", RootOr("rent_roll")>>, <<"construction_budget", RootOr("construction_budget")>>,
            <<"comps", WithTable(RootOr("comps"), "comps_table")>>, <<"redevelopment", RootOr("redevelopment")>>,
            <<"due_diligence", Dict(<<
                <<"lenders_counsel", _str_or_empty(Get(dd, "lenders_counsel"))>>,
                <<"borrowers_counsel", _str_or_empty(Get(dd, "borrowers_counsel"))>>,
                <<"pca_firm", _str_or_empty(Get(dd, "pca_firm"))>>,
                <<"background_check", _str_or_empty(Or(Get(dd, "background_check"), Get(dd, "background_check_firm")))>>,
                <<"site_visit", _str_or_empty(Or(Get(dd, "site_visit"), Get(dd, "site_visit_team")))>>,
                <<"appraisal_firm", _str_or_empty(Get(dd, "appraisal_firm"))>>,
                <<"appraisal_company", _str_or_empty(Get(dd, "appraisal_company"))>>,
                <<"environmental_firm", _str_or_empty(Get(dd, "environmental_firm"))>> >>)>>,
            <<"active_litigation", al>>,
            <<"deal_highlights", IF Has(dh, "items") THEN dh ELSE Put(dh, "items", List(<<>>))>>,
            <<"closing_funding_and_reserves", IF Truthy(closing_narrative) /\ IsDict(cfr0)
                                              THEN Put(cfr0, "narrative", closing_narrative) ELSE cfr0>>,
            <<"LTC", Or(Or(Or(Get(lev, "fb_ltc_at_closing"), Get(lev, "ltc_at_closing")), Get(lev, "ltc_at_maturity")), S("N/A"))>>,
            <<"LTV", Or(Or(Get(lev, "ltv_at_closing"), Get(lev, "ltv_at_maturity")), S("N/A"))>>,
            <<"property_value", WithTable(IF Truthy(m._valuation) THEN m._valuation ELSE E0, "property_value_table")>>,
            <<"exit_strategy", NarrativeDict(Or(Get(m._narratives, "exit_strategy"), Empty))>>,
            <<"foreclosure_assumptions", NarrativeDict(Or(Get(m._narratives, "foreclosure_assumptions"), Empty))>>,
            <<"narratives", IF ~IsDict(m._narratives) THEN Exc
                            ELSE Dict([i \in DOMAIN m._narratives.kv |->
                                <<m._narratives.kv[i][1],
                                  IF IsStr(m._narratives.kv[i][2]) THEN _strip_markdown(m._narratives.kv[i][2])
                                  ELSE m._narratives.kv[i][2]>>])>>,
            <<"financial_info", PutAll(fi1, << <<"income_statement_table", GetD(tables, "income_statement_table", Empty)>>,
                                               <<"dcf_table", GetD(tables, "dcf_table", Empty)>> >>)>>,
            <<"credit_committee", GetD(Get(out1, "cover"), "credit_committee", Empty)>>,
            <<"underwriting_team", GetD(Get(out1, "cover"), "underwriting_team", Empty)>>,
            <<"memo_date", GetD(Get(out1, "cover"), "date", Empty)>>,
            <<"date", GetD(Get(out1, "cover"), "date", Empty)>>,
            <<"sponsor_bios", GetD(Sec("sponsorship"), "sponsor_bios", List(<<>>))>>,
            <<"financial_summary", GetD(Sec("sponsorship"), "financial_summary", List(<<>>))>>,
            <<"deal_facts_raw", m._deal_facts>>,
            <<"leverage_raw", m._leverage>>,
            <<"leverage", Or(m._leverage, E0)>>,
            <<"loan_terms_raw", Defaults(raw0, <<"origination_fee", "exit_fee", "prepayment", "guaranty", "collateral">>)>>,
            <<"financial_information", DictCopy(m._financial_info)>> >>)
        Spread(out2) == PutNew(PutNew(PutNew(PutNew(out2, m._deal_facts), Or(m._leverage, E0)),
                                      Or(m._loan_terms, E0)), Or(m._financial_info, E0))
        Defaulted(out3) == PutAll(out3, <<
            <<"guarantor_financials", Dict(<<
                <<"combined_net_worth", _str_or_empty(Get(guarantors, "combined_net_worth"))>>,
                <<"combined_cash_position", _str_or_empty(Get(guarantors, "combined_cash_position"))>>,
                <<"combined_securities", _str_or_empty(Get(guarantors, "combined_securities_holdings"))>>,
                <<"lender_min_net_worth", Empty>>, <<"lender_min_liquidity", Empty>>, <<"guarantees", Empty>> >>)>>,
            <<"principal_financials", List([i \in DOMAIN ps |-> Dict(<<
                PF(ps[i], "name"), PF(ps[i], "title"), PF(ps[i], "company"), PF(ps[i], "credit_score"),
                PF(ps[i], "credit_score_date"), PF(ps[i], "net_worth"), PF(ps[i], "liquid_assets"),
                PF(ps[i], "sreo_property_count"), PF(ps[i], "sreo_total_value") >>)])>>,
            <<"equity_partner", Dict(<< <<"name", Empty>>, <<"description", Empty>>, <<"partnership_history", Empty>> >>)>>,
            <<"financial_information", Dict(<< <<"updated_income_statement", Dict(<<
                <<"effective_gross_income", Empty>>, <<"total_operating_expenses", Empty>>,
                <<"expense_ratio", Empty>>, <<"noi", Empty>> >>)>> >>)>> >>)
        Returned(out) == IF Raised(out) \/ Raised(tables) THEN Exc ELSE out
      IN  Then(Then(Then(Then(
              PutAll(Dict(<< <<"cover", _build_cover(m)>>, <<"toc", Str(<<"{", "{", "TOC", "}", "}">>)>>,
                             <<"sections", sections>> >>), direct),
              Aliases), Spread), Defaulted), Returned)
        Built(tables, fa0, lt0) ==
            LET default_scenario == Put(Get(fa0, "scenario_default_rate"), "table",
                                        GetD(tables, "default_interest_scenario_table", Empty))
            IN  Then(<< PutAll(Sections(m), <<
                           <<"loan_terms", Put(lt0, "narrative", _strip_markdown(Get(lt0, "narrative")))>>,
                           <<"foreclosure_analysis",
                             PutAll(fa0, << <<"scenario_default_rate", default_scenario>>,
                                            <<"default_interest_scenario", default_scenario>> >>)>> >>),
                        DirectVariables(m), default_scenario, Get(fa0, "scenario_note_rate") >>,
                     LAMBDA b : Schema(tables, b[1], b[2], b[3], b[4]))
    IN  Then(<<_build_table_strings(m), _build_foreclosure_analysis(m), _build_loan_terms(m)>>,
             LAMBDA b : Built(b[1], b[2], b[3]))

\* self.deal when transform() returns out: out["comps"] is deal["comps"] when
\* that is not None (line 1271) and out["property_value"] is deal["valuation"]
\* when that is not empty (1311), so the "table" lines 1330 and 1336 set on
\* them is set on the deal's own mappings.  The writes of a call that raises
\* are left out.
deal_after_transform(m, out) ==
    LET Shared(deal, k, v) == IF IsDict(Get(deal, k)) THEN Put(deal, k, v) ELSE deal
        comps == Shared(m.deal, "comps", Get(out, "comps"))
    IN  IF out = Exc THEN m.deal
        ELSE IF Truthy(m._valuation) THEN Shared(comps, "valuation", Get(out, "property_value"))
        ELSE comps
-----------------------------------------------------------------------------
(* fill_template *)

\* d without key k (dict.pop)
Del(d, k) == [d EXCEPT !.kv = SelectSeq(d.kv, LAMBDA e : e[1] # k)]

\* ensure_scenario_has_assumptions
ensure_scenario_has_assumptions(scenario) ==
    LET Add(d, k, v) == IF Has(d, k) THEN d ELSE Put(d, k, v)
    IN  IF ~IsDict(scenario)
        THEN Dict(<< <<"rows", List(<<>>)>>, <<"assumptions", E0>>, <<"metrics", E0>> >>)
        ELSE Add(Add(Add(scenario, "assumptions", E0), "metrics", E0), "rows", List(<<>>))

\* _scenario_with_items
_scenario_with_items(s0) ==
    LET s == IF ~Truthy(s0) \/ ~IsDict(s0)
             THEN Dict(<< <<"rows", List(<<>>)>>, <<"assumptions", E0>>, <<"metrics", E0>> >>) ELSE s0
        rows == IF IsList(Get(s, "rows")) THEN Get(s, "rows") ELSE List(<<>>)
        s1 == IF Has(s, "assumptions") THEN s ELSE Put(s, "assumptions", E0)
        s2 == IF Has(s1, "metrics") THEN s1 ELSE Put(s1, "metrics", E0)
    IN  PutAll(s2, << <<"rows", rows>>, <<"items", rows>> >>)

TEMPLATE_ALIASES == << <<"leverage", "leverage_metrics">> >>

\* flatten_schema_for_template applied to the mapping transform() returned.
\* transform binds each of these root names to the object of its section
\* (lines 1136-1164), so what flatten writes into one of them shows in the
\* section too; loan_terms is rebound here to the object of loan_terms_raw.
flatten_schema_for_template(data) ==
    LET sections0 == Or(Get(data, "sections"), E0)
        spread == Concat([i \in DOMAIN sections0.kv |->
                    IF IsDict(sections0.kv[i][2]) THEN sections0.kv[i][2].kv ELSE <<>>])
        \* one step of the function: c.flat is flat, c.sections is sections
        At(flat, sections) == [flat |-> flat, sections |-> sections]
        Aliased(flat) ==
            IF ~Has(flat, TEMPLATE_ALIASES[1][1]) /\ Has(flat, TEMPLATE_ALIASES[1][2])
            THEN Put(flat, TEMPLATE_ALIASES[1][1], Get(flat, TEMPLATE_ALIASES[1][2])) ELSE flat
        New(flat, k, sec, v) == IF ~Has(flat, k) /\ Has(sections0, sec) THEN Put(flat, k, v) ELSE flat
        RECURSIVE Same(_, _)
        Same(flat, names) ==
            IF names = <<>> THEN flat
            ELSE Same(New(flat, names[1], names[1], Get(sections0, names[1])), Tail(names))
        SectionAliases(flat) ==
            Same(New(New(New(New(flat, "sponsor", "sponsorship", Get(sections0, "sponsorship")),
                     "sponsors", "sponsorship", Or(Get(Get(sections0, "sponsorship"), "_sponsors_detail"), List(<<>>))),
                     "sources_and_uses", "sources_and_uses", Get(sections0, "sources_and_uses")),
                     "property_overview", "property", Get(sections0, "property")),
                 <<"zoning_entitlements", "risks_and_mitigants", "third_party_reports",
                   "validation_flags", "location", "market">>)
        Ensured(d, k) == Put(d, k, ensure_scenario_has_assumptions(Get(d, k)))
        EnsuredOr(d, k, other) ==
            Put(d, k, IF Has(d, k) THEN ensure_scenario_has_assumptions(Get(d, k)) ELSE Get(d, other))
        Foreclosure(flat) ==
            LET fa0 == IF Has(flat, "foreclosure_analysis") THEN Get(flat, "foreclosure_analysis")
                       ELSE Get(sections0, "foreclosure_analysis")
                fa == EnsuredOr(EnsuredOr(Ensured(Ensured(IF IsDict(fa0) THEN fa0 ELSE E0,
                                    "default_interest_scenario"), "note_interest_scenario"),
                                    "scenario_default_rate", "default_interest_scenario"),
                                    "scenario_note_rate", "note_interest_scenario")
            \* the section is the object fa was taken from, when it was a mapping:
            \* its own value, or the root value transform took from it (line 1162)
            IN  At(Put(flat, "foreclosure_analysis", fa),
                   IF IsDict(fa0) /\ Has(sections0, "foreclosure_analysis")
                      /\ Get(sections0, "foreclosure_analysis") = fa0
                   THEN Put(sections0, "foreclosure_analysis", fa) ELSE sections0)
        Overviews(flat) ==
            New(New(New(New(New(flat, "location_overview", "location", Get(sections0, "location")),
                "market_overview", "market", Get(sections0, "market")),
                "property_overview_narrative", "property", Or(Get(Get(sections0, "property"), "description_narrative"), Empty)),
                "financial_info", "sponsorship", GetD(Get(sections0, "sponsorship"), "financial_summary", List(<<>>))),
                "guarantor_financials", "sponsorship", GetD(Get(sections0, "sponsorship"), "financial_summary", List(<<>>)))
        \* fa.get(...) of lines 1745-1769 is an AttributeError when the section
        \* is neither empty nor a mapping
        Scen(flat, sfa, k, sk) ==
            IF flat = Exc THEN Exc
            ELSE IF ~Has(flat, k) \/ Get(flat, k) = None \/ ~IsDict(Get(flat, k))
            THEN IF Get(sfa, sk) = Exc THEN Exc ELSE Put(flat, k, _scenario_with_items(Get(sfa, sk)))
            ELSE LET d == Get(flat, k)
                     d1 == IF Has(d, "assumptions") THEN d ELSE Put(d, "assumptions", E0)
                 IN  Put(flat, k, IF Has(d1, "metrics") THEN d1 ELSE Put(d1, "metrics", E0))
        \* flat["sections"] = sections is written here; the later steps change
        \* the sections through the objects they share with flat
        Scenarios(c) ==
            LET sfa == Or(Get(c.sections, "foreclosure_analysis"), E0)
                Kept(flat) == IF flat = Exc THEN Exc ELSE At(Put(flat, "sections", c.sections), c.sections)
            IN  Then(Scen(Scen(Overviews(c.flat), sfa, "default_interest_scenario", "scenario_default_rate"),
                          sfa, "note_interest_scenario", "scenario_note_rate"), Kept)
        Sponsor(c) ==
            LET sp == Get(c.sections, "sponsorship")
                sp1 == IF Truthy(sp) /\ IsDict(sp) /\ ~Truthy(Get(sp, "overview_narrative"))
                       THEN Put(sp, "overview_narrative", GetD(sp, "name", S("See Sponsor Details"))) ELSE sp
            IN  IF c # Exc /\ Has(c.sections, "sponsorship")
                THEN At(Put(c.flat, "sponsor", sp1), Put(c.sections, "sponsorship", sp1))
                ELSE c
        RECURSIVE Raw(_, _)
        Raw(flat, keys) ==
            IF keys = <<>> THEN flat
            ELSE Raw(IF Has(flat, keys[1]) /\ IsDict(Get(flat, keys[1])) THEN PutNew(flat, Get(flat, keys[1])) ELSE flat,
                     Tail(keys))
        Over(flat, k, raw) == IF Has(flat, raw) THEN Put(flat, k, Or(Get(flat, raw), E0)) ELSE flat
        RawSpread(flat) ==
            Over(Over(Over(Raw(flat, <<"deal_facts_raw", "leverage_raw", "loan_terms_raw">>),
                 "deal_facts", "deal_facts_raw"), "leverage", "leverage_raw"), "loan_terms", "loan_terms_raw")
        \* loan_terms and loan_terms_raw are one object unless the raw one was empty
        LoanTerms(flat) ==
            LET lt0 == Get(flat, "loan_terms")
                ir == Get(lt0, "interest_rate")
                WithRate(d) == IF IsDict(d) /\ IsDict(ir) THEN Put(d, "interest_rate", GetD(ir, "description", PyStr(ir))) ELSE d
                lt_narr == GetD(GetD(flat, "narratives", E0), "loan_terms_narrative", Empty)
                WithNarrative(d) == IF IsDict(d) /\ Truthy(lt_narr) THEN Put(d, "narrative", lt_narr) ELSE d
                Both(d) == PutAll(flat, << <<"loan_terms", d>> >> \o
                               (IF Has(flat, "loan_terms_raw") /\ Truthy(Get(flat, "loan_terms_raw"))
                                THEN << <<"loan_terms_raw", d>> >> ELSE <<>>))
            IN  IF Has(flat, "loan_terms") THEN Both(WithNarrative(WithRate(lt0))) ELSE flat
        Alias(d, from, to) == IF IsDict(d) /\ ~Has(d, to) /\ Has(d, from) THEN Put(d, to, Get(d, from)) ELSE d
        Property(c) ==
            LET po == Alias(Get(c.flat, "property_overview"), "description_narrative", "narrative")
            IN  IF c # Exc /\ Has(c.flat, "property_overview")
                THEN At(PutAll(c.flat, << <<"property_overview", po>> >> \o
                                       (IF Has(c.flat, "property") THEN << <<"property", po>> >> ELSE <<>>)),
                        IF Has(c.sections, "property") THEN Put(c.sections, "property", po) ELSE c.sections)
                ELSE c
        Zoning(c) ==
            LET ze == Alias(Get(c.flat, "zoning_entitlements"), "summary_narrative", "narrative")
            IN  IF c # Exc /\ Has(c.flat, "zoning_entitlements")
                THEN At(Put(c.flat, "zoning_entitlements", ze),
                        IF Has(c.sections, "zoning_entitlements") THEN Put(c.sections, "zoning_entitlements", ze)
                        ELSE c.sections)
                ELSE c
        Litigation(flat) ==
            LET al == Get(flat, "active_litigation")
                cases == GetD(al, "cases", List(<<>>))
            IN  IF Has(flat, "active_litigation") /\ IsDict(al) /\ ~Has(al, "narrative")
                THEN Put(flat, "active_litigation", Put(al, "narrative",
                        IF Truthy(cases)
                        THEN Str(<<ToString(Len(Iter(cases))), " ", "active case(s). See details below.">>)
                        ELSE S("No active litigation.")))
                ELSE flat
        Raws(c) == IF c = Exc THEN Exc ELSE At(RawSpread(c.flat), c.sections)
        Terms(c) == IF c = Exc THEN Exc ELSE At(LoanTerms(c.flat), c.sections)
        Finish(c) == IF c = Exc THEN Exc ELSE Put(Litigation(c.flat), "sections", c.sections)
    IN  Then(Then(Then(Then(Then(Then(Then(Then(Then(Then(
            PutNewPairs(Del(data, "sections"), spread),
            Aliased), SectionAliases), Foreclosure), Scenarios), Sponsor), Raws), Terms), Property), Zoning), Finish)
\* s.replace(a + b, a + " " + b) for one-character a and b: left to right,
\* without looking again at what a replacement produced
RECURSIVE Replace(_, _, _)
Replace(s, a, b) ==
    IF Len(s) < 2 THEN s
    ELSE IF s[1] = a /\ s[2] = b THEN <<a, " ", b>> \o Replace(SubSeq(s, 3, Len(s)), a, b)
    ELSE <<s[1]>> \o Replace(Tail(s), a, b)

RECURSIVE escape_jinja_syntax(_)
escape_jinja_syntax(obj) ==
    CASE obj.t = "str" -> Str(Replace(Replace(Replace(Replace(obj.s, "{", "{"), "}", "}"), "{", "%"), "%", "}"))
      [] obj.t = "dict" -> Dict([i \in DOMAIN obj.kv |-> <<obj.kv[i][1], escape_jinja_syntax(obj.kv[i][2])>>])
      [] obj.t = "list" -> List([i \in DOMAIN obj.xs |-> escape_jinja_syntax(obj.xs[i])])
      [] OTHER -> obj

\* an InlineImage
Image == [t |-> "image"]

\* a (key, value) tuple
Pair(k, v) == [t |-> "tuple", xs |-> <<S(k), v>>]

\* list(d.items())
ItemsList(kv) == List([i \in DOMAIN kv |-> Pair(kv[i][1], kv[i][2])])

\* prepare_images_for_template: an InlineImage for every key whose data could
\* be decoded (the others are skipped with a warning); AttributeError when
\* images has no .items()
prepare_images_for_template(images) ==
    IF ~IsDict(images) THEN Exc
    ELSE LET ok == SelectSeq(images.kv, LAMBDA im : im[2] = S("<png base64>"))
         IN  Dict([i \in DOMAIN ok |-> <<ok[i][1], Image>>])

\* {**flat_data, **inline_images} and the "images" default, lines 1881-1883
MergeImages(flat_data, inline_images) ==
    LET context == PutAll(flat_data, inline_images.kv)
    IN  IF Has(context, "images") THEN context ELSE Put(context, "images", List(<<>>))

\* _ensure_items_on_dicts without its root exception: the root gets 'items' too
RECURSIVE ensure_items_on_root_too(_, _)
ensure_items_on_root_too(obj, root) ==
    CASE obj.t = "dict" ->
            LET kv == [i \in DOMAIN obj.kv |-> <<obj.kv[i][1], ensure_items_on_root_too(obj.kv[i][2], FALSE)>>]
            IN  IF ~Has(obj, "items") THEN Dict(Append(kv, <<"items", ItemsList(kv)>>))
                ELSE Dict(kv)
      [] obj.t = "list" -> List([i \in DOMAIN obj.xs |-> ensure_items_on_root_too(obj.xs[i], FALSE)])
      [] OTHER -> obj

\* _ensure_items_on_dicts.  The context is the fresh tree escape_jinja_syntax
\* built, so no object is met twice and the seen set stops nothing.
RECURSIVE _ensure_items_on_dicts(_, _)
_ensure_items_on_dicts(obj, root) ==
    CASE obj.t = "dict" ->
            LET kv == [i \in DOMAIN obj.kv |-> <<obj.kv[i][1], _ensure_items_on_dicts(obj.kv[i][2], FALSE)>>]
            IN  IF ~root /\ ~Has(obj, "items") THEN Dict(Append(kv, <<"items", ItemsList(kv)>>))
                ELSE Dict(kv)
      [] obj.t = "list" -> List([i \in DOMAIN obj.xs |-> _ensure_items_on_dicts(obj.xs[i], FALSE)])
      [] OTHER -> obj

\* _DictWithItemsList(d): the wrapper's _d
_DictWithItemsList(d) ==
    [t |-> "wrapped",
     kv |-> IF ~Has(d, "items") \/ ~IsList(Get(d, "items")) THEN Put(d, "items", ItemsList(d.kv)).kv ELSE d.kv]

\* lines 1885-1922 of fill_template: the wrapping of the top-level mappings and
\* the three guards that follow it
WrapAndGuard(context) ==
    LET Wrapped(c) == Dict([i \in DOMAIN c.kv |->
                <<c.kv[i][1], IF IsDict(c.kv[i][2]) THEN _DictWithItemsList(c.kv[i][2]) ELSE c.kv[i][2]>>])
        Foreclosure(c1) ==
            LET fa == Get(c1, "foreclosure_analysis")
                fa_dict == IF fa.t \in {"wrapped", "dict"} THEN Dict(fa.kv) ELSE E0
                dis == Get(fa_dict, "default_interest_scenario")
                dis1 == IF Has(dis, "assumptions") THEN dis ELSE Put(dis, "assumptions", E0)
                fa1 == IF ~Has(fa_dict, "default_interest_scenario") \/ dis = None
                       THEN Put(fa_dict, "default_interest_scenario",
                                Dict(<< <<"rows", List(<<>>)>>, <<"assumptions", E0>>, <<"metrics", E0>> >>))
                       ELSE IF IsDict(dis)
                       THEN Put(fa_dict, "default_interest_scenario", IF Has(dis1, "metrics") THEN dis1 ELSE Put(dis1, "metrics", E0))
                       ELSE fa_dict
            IN  IF ~Has(c1, "foreclosure_analysis") THEN c1
                ELSE Put(c1, "foreclosure_analysis",
                         IF fa.t = "wrapped" THEN [t |-> "wrapped", kv |-> fa1.kv] ELSE _DictWithItemsList(fa1))
        Sponsors(c2) ==
            LET v == Get(c2, "sponsors")
            IN  IF Has(c2, "sponsors") /\ ~IsList(v)
                THEN Put(c2, "sponsors",
                         IF IsDict(v) THEN List([i \in DOMAIN v.kv |-> v.kv[i][2]])
                         ELSE IF v.t = "wrapped" THEN List([i \in DOMAIN v.kv |-> S(v.kv[i][1])])
                         ELSE List(<<>>))
                ELSE c2
        Fix(d, k) == IF Has(d, k) /\ Get(d, k) # None /\ ~IsList(Get(d, k)) THEN Put(d, k, List(<<>>)) ELSE d
        LoanIssues(c3) ==
            IF Has(c3, "loan_issues") /\ IsDict(Get(c3, "loan_issues"))
            THEN Put(c3, "loan_issues", Fix(Fix(Get(c3, "loan_issues"), "income_producing"), "development"))
            ELSE c3
    IN  LoanIssues(Sponsors(Foreclosure(Wrapped(context))))
-----------------------------------------------------------------------------
(* S3 *)

\* the number a token of digits spells, -1 for any other token
Digits(tok) == IF \E n \in 0..999 : ToString(n) = tok THEN CHOOSE n \in 0..999 : ToString(n) = tok ELSE -1

\* get_unique_output_key against the objects of the bucket.  A key is a text
\* whose extension, when it has one, is its last token.
get_unique_output_key(output_key, bucket) ==
    LET k == output_key.s
        has_ext == Len(k) > 1 /\ k[Len(k)] = ".docx"
        base0 == IF has_ext THEN SubSeq(k, 1, Len(k) - 1) ELSE k
        ext == IF has_ext THEN <<".docx">> ELSE <<>>
        match == Len(base0) > 2 /\ base0[Len(base0) - 1] = "_" /\ Digits(base0[Len(base0)]) >= 0
        base == IF match THEN SubSeq(base0, 1, Len(base0) - 2) ELSE base0
        start == IF match THEN Digits(base0[Len(base0)]) + 1 ELSE 2
        Key(i) == Str(base \o <<"_", ToString(i)>> \o ext)
        free == {i \in start..999 : Key(i) \notin bucket}
    IN  IF output_key \notin bucket THEN output_key
        ELSE IF free # {} THEN Key(CHOOSE i \in free : \A j \in free : i <= j)
        ELSE Str(base \o <<"_", "<timestamp>">> \o ext)
-----------------------------------------------------------------------------
(* Requests *)

MaxFields == 1      \* fields a deal sets besides deal_id
MaxTextLen == 3     \* tokens of a narrative text

\* a deal field with the shape Layer 3 sends, or with a JSON type the mapper
\* does not expect
FieldOptions ==
    << <<"property", Dict(<< <<"name", S("Example Plaza")>> >>)>>,
       <<"property", None>>,
       <<"sponsor", S("x")>>,
       <<"sponsor", Dict(<< <<"name", S("Acme Holdings")>>,
                            <<"principals", List(<<Dict(<< <<"name", S("P. Doe")>>, <<"credit_score", Num(950)>> >>)>>)>>,
                            <<"guarantors", Dict(<< <<"names", List(<<S("G. Roe")>>)>>, <<"combined_net_worth", Num(1250000)>> >>)>>,
                            <<"table", List(<<Dict(<< <<"entity", S("TOTAL")>>, <<"profit_pct", Str(<<"100", "%">>)>> >>)>>)>> >>)>>,
       <<"risks_and_mitigants", List(<<Num(1)>>)>>,
       <<"risks_and_mitigants", Dict(<< <<"items", List(<<Dict(<< <<"title", S("Lease-up")>>, <<"description", S("slow")>>,
                                                                  <<"mitigant", S("reserve")>> >>)>>)>> >>)>>,
       <<"loan_issues", List(<<Num(1)>>)>>,
       <<"loan_issues", Dict(<< <<"income_producing", S("abc")>> >>)>>,
       <<"loan_issues", Dict(<< <<"income_producing", List(<<S("vacancy")>>)>>, <<"development", Num(5)>> >>)>>,
       <<"loan_issues", Dict(<< <<"income_producing", None>>, <<"development", Dict(<< <<"a", Num(1)>> >>)>> >>)>>,
       <<"deal_highlights", Dict(<< <<"items", Dict(<< <<"a", Num(1)>> >>)>> >>)>>,
       <<"deal_highlights", Dict(<< <<"items", List(<<Dict(<< <<"title", S("Prime site")>> >>)>>)>> >>)>>,
       <<"active_litigation", Dict(<< <<"cases", List(<<Num(1)>>)>> >>)>>,
       <<"active_litigation", Dict(<< <<"exists", Bool(TRUE)>>,
                                      <<"cases", List(<<Dict(<< <<"background", S("lien")>>, <<"holdback", None>> >>)>>)>> >>)>>,
       <<"credit_report", Dict(<< <<"inner", Dict(<< <<"items", S("x")>> >>)>>, <<"score", Num(950)>> >>)>>,
       <<"collaborative_ventures", Dict(<< <<"items", List(<<Dict(<< <<"property_address", S("1 Main St")>>,
                                                                     <<"acquisition_price", Num(1250000)>> >>)>>)>> >>)>>,
       <<"loan_terms", Dict(<< <<"loan_amount", Num(35610000)>>,
                               <<"interest_rate", Dict(<< <<"description", Str(<<"SOFR + 2.50", "%">>)>> >>)>> >>)>>,
       <<"narratives", Dict(<< <<"exit_strategy", S("Refinance at stabilization.")>>,
                               <<"loan_terms_narrative", Str(<<" ", "Two-year term.", " ">>)>> >>)>>,
       <<"leverage", Dict(<< <<"ltv_at_closing", Str(<<"62.50", "%">>)>>, <<"ltv_at_maturity", Str(<<"55.00", "%">>)>> >>)>>,
       <<"leverage", Dict(<< <<"ltv_at_closing", Num(65)>> >>)>> >>

\* the non-empty texts of at most n tokens over the characters the escaping
\* looks at and one chunk of other text
RECURSIVE Texts(_)
Texts(n) ==
    IF n = 0 THEN {<<>>}
    ELSE Texts(n - 1) \cup {Append(t, c) : t \in {u \in Texts(n - 1) : Len(u) = n - 1}, c \in {"{", "}", "%", "a"}}

\* deals that carry the current shape, the Layer 3 shape, or both at once
LayeredDeals ==
    LET base == << <<"deal_id", S("D1")>> >>
        current == << <<"deal_facts", Dict(<< <<"property_type", S("Office")>> >>)>>,
                      <<"leverage", Dict(<< <<"ltv_at_closing", Str(<<"62.50", "%">>)>> >>)>>,
                      <<"loan_terms", Dict(<< <<"exit_fee", Str(<<"1.00", "%">>)>> >>)>> >>
        layer3 == << <<"deal_memo_ready",
                       Dict(<< <<"deal_facts_table", Dict(<< <<"property_type", S("Retail")>>,
                                                             <<"loan_purpose", S("Acquisition")>> >>)>>,
                               <<"leverage_ratios_table", Dict(<< <<"ltv_at_closing", Str(<<"60.00", "%">>)>>,
                                                                  <<"ltv_at_maturity", Str(<<"55.00", "%">>)>> >>)>> >>)>>,
                     <<"extracted_data",
                       Dict(<< <<"loan_terms", Dict(<< <<"exit_fee", Str(<<"2.00", "%">>)>>,
                                                       <<"prepayment", S("Open")>> >>)>> >>)>> >>
    IN  {Dict(base \o current), Dict(base \o layer3), Dict(base \o current \o layer3)}

\* deals whose sponsor names one person twice, with per-principal financial
\* detail and with or without the guarantors' combined figure
SponsorDeals ==
    LET principals == List(<<
            Dict(<< <<"name", S("Steve Hudson")>>, <<"net_worth", Str(<<"$", "1,000,000">>)>>,
                    <<"liquid_assets", Str(<<"$", "200,000">>)>> >>),
            Dict(<< <<"name", Str(<<"Steve Hudson", " ", "Jr", ".">>)>>, <<"net_worth", Str(<<"$", "2,000,000">>)>>,
                    <<"liquid_assets", S("n/a")>> >>) >>)
        names == <<"names", List(<<S("Steve Hudson"), Str(<<"Steve Hudson", " ", "Jr", ".">>)>>)>>
        deal(guarantors) == Dict(<< <<"deal_id", S("D1")>>,
                                    <<"sponsor", Dict(<< <<"principals", principals>>,
                                                         <<"guarantors", Dict(guarantors)>> >>)>> >>)
    IN  {deal(<<names>>), deal(<<names, <<"combined_net_worth", Str(<<"$", "9,000,000">>)>> >>)}

\* deals with collaborative ventures: more of them than a track record is
\* said to hold, items that are no mappings or name no property, and an item
\* whose first address field is a null-like text
VentureDeals ==
    LET deal(items) == Dict(<< <<"deal_id", S("D1")>>,
                               <<"collaborative_ventures", Dict(<< <<"items", List(items)>> >>)>> >>)
        main == Dict(<< <<"property_address", S("1 Main St")>> >>)
    IN  { deal([i \in 1..11 |-> main]),
          deal(<< Dict(<< <<"property_name", S("Elm Plaza")>>, <<"status", S("Sold")>> >>), Num(5),
                  Dict(<< <<"x", Num(1)>> >>), Dict(<< <<"address", S("2 Oak St")>> >>) >>),
          deal(<< Dict(<< <<"property_address", S("N/A")>>, <<"address", S("5 Elm St")>> >>) >>) }

\* deals with fields transform hands on as they are: a valuation, comps,
\* narratives beside Layer 3 placeholders, an equity partner as text and as
\* a mapping
PassThroughDeals ==
    LET deal(kv) == Dict(<< <<"deal_id", S("D1")>> >> \o kv)
    IN  { deal(<< <<"valuation", Dict(<< <<"as_is_value", Num(950)>> >>)>> >>),
          deal(<< <<"comps", Dict(<< <<"a", Num(1)>> >>)>> >>),
          deal(<< <<"narratives", Dict(<< <<"exit_strategy", S("Refinance at stabilization.")>> >>)>>,
                  <<"deal_memo_ready", Dict(<< <<"narrative_placeholders",
                                                 Dict(<< <<"property_description", S("A retail center.")>> >>)>> >>)>> >>),
          deal(<< <<"equity_partner", S("Acme Equity")>> >>),
          deal(<< <<"equity_partner", Dict(<< <<"name", S("Acme Equity")>> >>)>> >>) }

\* the deals: deal_id alone or with up to MaxFields more fields, taken in the
\* order of FieldOptions, the deals of either record shape, the deals with
\* sponsor detail or collaborative ventures, the deals with fields handed on,
\* and the deals whose exit-strategy narrative is one of the texts
Deals ==
    LET base == Dict(<< <<"deal_id", S("D1")>> >>)
        RECURSIVE With(_, _, _)
        With(deal, n, from) ==
            IF n = 0 THEN {deal}
            ELSE {deal} \cup UNION {With(Put(deal, FieldOptions[i][1], FieldOptions[i][2]), n - 1, i + 1) :
                                        i \in {j \in from..Len(FieldOptions) : ~Has(deal, FieldOptions[j][1])}}
    IN  {E0} \cup With(base, MaxFields, 1) \cup LayeredDeals \cup SponsorDeals \cup VentureDeals
        \cup PassThroughDeals
        \cup {Put(base, "narratives", Dict(<< <<"exit_strategy", Str(t)>> >>)) : t \in Texts(MaxTextLen) \ {<<>>}}

OutputKey == Str(<<"memos/D1", ".docx">>)

\* the JSON bodies: the wrapped shape around each deal, the raw and the array
\* shape, and bodies of no accepted shape
Bodies ==
    LET deal == Dict(<< <<"deal_id", S("D1")>>, <<"cover", E0>> >>)
        Wrapped(payload, more) == Dict(<< <<"payload", List(payload)>> >> \o more)
        key == << <<"output_key", OutputKey>> >>
    IN  {Wrapped(<<d>>, key) : d \in Deals}
        \cup { deal, List(<<deal>>), S("x"), Num(5), E0, List(<<>>), List(<<S("x")>>),
               Wrapped(<<>>, key), Wrapped(<<S("x")>>, key), Wrapped(<<S("x")>>, <<>>),
               Wrapped(<<deal>>, <<>>),
               Wrapped(<<deal>>, key \o << <<"deal_index", Num(1)>> >>),
               Wrapped(<<deal>>, key \o << <<"deal_index", Num(-1)>> >>),
               Wrapped(<<deal>>, key \o << <<"deal_index", S("x")>> >>),
               Wrapped(<<deal>>, << <<"deal_index", Num(1)>> >>),
               Wrapped(<<deal>>, << <<"deal_index", Num(-1)>> >>),
               Wrapped(<<deal>>, << <<"deal_index", Num(-2)>> >>),
               Wrapped(<<deal>>, key \o << <<"deal_index", Num(-2)>> >>),
               Wrapped(<<S("x")>>, << <<"deal_index", Num(1)>> >>),
               Wrapped(<<>>, << <<"deal_index", Num(1)>> >>),
               Wrapped(<<deal>>, key \o << <<"images", Dict(<< <<"IMAGE_SITE_PLAN", S("<png base64>")>>,
                                                                <<"IMAGE_STREET_VIEW", S("<bad padding>")>> >>)>> >>),
               Wrapped(<<deal>>, key \o << <<"images", List(<<S("x")>>)>> >>) }

\* a request: the body and the output_key query parameter, which only the
\* raw and the array shape read
Requests ==
    {[body |-> b, q_output_key |-> None] : b \in Bodies}
    \cup {[body |-> b, q_output_key |-> OutputKey] :
            b \in {c \in Bodies : (IsDict(c) /\ ~Has(c, "payload") /\ c # E0) \/ (IsList(c) /\ c.xs # <<>>)}}

\* responses of the handler
Response(status, detail) == [status |-> status, detail |-> detail]
NoLocals == [payload |-> None, deal_index |-> None, output_key |-> None, images |-> None,
             deal |-> None, inline_images |-> None, out_key |-> None]

\* the bucket before the request: empty, or holding the memo of an earlier
\* request for the same key (for the bodies whose deal has no optional field)
Buckets(body) ==
    IF IsDict(body) /\ IsList(Get(body, "payload")) /\ Get(body, "payload").xs # <<>>
       /\ IsDict(Get(body, "payload").xs[1]) /\ Len(Get(body, "payload").xs[1].kv) > 1
    THEN {{}}
    ELSE {{}, {OutputKey}}

Init ==
    /\ request \in Requests
    /\ pc = "endpoint"
    /\ loc = NoLocals
    /\ mapper = None
    /\ schema_data = None
    /\ ctx = None
    /\ pre_items = None
    /\ stages = <<>>
    /\ s3 \in Buckets(request.body)
    /\ response = None
-----------------------------------------------------------------------------
(* The handler of POST /fill-from-deal *)

\* int(v)
ToInt(v) ==
    CASE v.t = "num" -> v
      [] v.t = "bool" -> Num(IF v.b THEN 1 ELSE 0)
      [] v.t = "str" /\ Len(v.s) = 1 /\ Digits(v.s[1]) >= 0 -> Num(Digits(v.s[1]))
      [] OTHER -> Exc

\* xs[n] with Python's negative indices; IndexError outside the list
Index(xs, n) ==
    IF n >= 0 /\ n < Len(xs) THEN xs[n + 1]
    ELSE IF n < 0 /\ 0 - n <= Len(xs) THEN xs[Len(xs) + n + 1]
    ELSE Exc

Respond(status, detail) ==
    /\ response' = Response(status, detail)
    /\ pc' = "done"

\* an exception that leaves the handler outside its try block
Unhandled == Respond(500, S("Internal Server Error"))

\* "except Exception" of fill_from_deal_endpoint
MemoFillFailed == Respond(500, Str(<<"Memo fill failed: ", "<error>", ". Check server logs for traceback.">>))

\* fill_from_deal_endpoint up to the call of _run_fill_from_deal
fill_from_deal_endpoint ==
    /\ pc = "endpoint"
    /\ LET body == request.body
           wrapped == IsDict(body) /\ Has(body, "payload") /\ IsList(Get(body, "payload"))
           raw == ~wrapped /\ IsDict(body) /\ Truthy(Get(body, "deal_id")) /\ Get(body, "cover") # None
           array == ~wrapped /\ ~raw /\ IsList(body) /\ body.xs # <<>> /\ IsDict(body.xs[1])
                    /\ Truthy(Get(body.xs[1], "deal_id"))
           payload == IF wrapped THEN Get(body, "payload") ELSE IF raw THEN List(<<body>>)
                      ELSE IF array THEN body ELSE None
           deal_index == IF wrapped THEN ToInt(GetD(body, "deal_index", Num(0))) ELSE Num(0)
           output_key == IF wrapped THEN Get(body, "output_key")
                         ELSE IF raw \/ array THEN request.q_output_key ELSE None
           images == IF wrapped THEN Or(Get(body, "images"), E0) ELSE E0
           selected == IF deal_index.n < Len(payload.xs) THEN Index(payload.xs, deal_index.n) ELSE payload.xs[1]
           safe_id == Strip(Or(Get(selected, "deal_id"), S("deal")))
           default_key == Str(<<"deals/">> \o [i \in DOMAIN safe_id.s |-> IF safe_id.s[i] = " " THEN "-" ELSE safe_id.s[i]]
                              \o <<"/Investment_Memo", ".docx">>)
       IN  IF deal_index = Exc THEN Unhandled /\ UNCHANGED loc
           ELSE IF ~Truthy(payload)
           THEN Respond(422, S("Body must be either (1) { \"payload\": [ deal, ... ], \"output_key\": \"...\" } or (2) a single deal object (optionally ?output_key=...)"))
                /\ UNCHANGED loc
           ELSE IF ~Truthy(output_key) /\ safe_id = Exc THEN Unhandled /\ UNCHANGED loc
           ELSE /\ loc' = [loc EXCEPT !.payload = payload, !.deal_index = deal_index, !.images = images,
                                      !.output_key = IF Truthy(output_key) THEN output_key ELSE default_key]
                /\ pc' = "run"
                /\ UNCHANGED response
    /\ UNCHANGED <<request, mapper, schema_data, ctx, pre_items, stages, s3>>

\* _run_fill_from_deal up to the construction of the mapper: the checks of
\* payload and deal_index, and deal.get() on the selected element
_run_fill_from_deal ==
    /\ pc = "run"
    /\ LET payload == loc.payload.xs
           n == loc.deal_index.n
       IN  IF payload = <<>>
           THEN Respond(400, S("payload must be a non-empty array of deal objects")) /\ UNCHANGED loc
           ELSE IF n < 0 \/ n >= Len(payload)
           THEN Respond(400, Str(<<"deal_index must be between 0 and ", ToString(Len(payload) - 1)>>)) /\ UNCHANGED loc
           ELSE IF Get(payload[n + 1], "deal_id") = Exc
           THEN MemoFillFailed /\ UNCHANGED loc
           ELSE /\ loc' = [loc EXCEPT !.deal = payload[n + 1]]
                /\ pc' = "construct"
                /\ UNCHANGED response
    /\ UNCHANGED <<request, mapper, schema_data, ctx, pre_items, stages, s3>>

\* mapper = DealInputToSchemaMapper(deal); self.deal is the caller's deal
Construct ==
    /\ pc = "construct"
    /\ mapper' = __init__(loc.deal)
    /\ loc' = [loc EXCEPT !.deal = mapper'.deal]
    /\ IF InitRaised(mapper') THEN MemoFillFailed ELSE pc' = "transform" /\ UNCHANGED response
    /\ UNCHANGED <<request, schema_data, ctx, pre_items, stages, s3>>

\* schema_data = mapper.transform()
Transform ==
    /\ pc = "transform"
    /\ schema_data' = transform(mapper)
    /\ mapper' = [mapper EXCEPT !.deal = deal_after_transform(mapper, schema_data')]
    /\ loc' = [loc EXCEPT !.deal = mapper'.deal]
    /\ stages' = Append(stages, "transform")
    /\ IF schema_data' = Exc THEN MemoFillFailed ELSE pc' = "download" /\ UNCHANGED response
    /\ UNCHANGED <<request, ctx, pre_items, s3>>

\* download_template: the object is read, or S3 fails and the handler answers 404
Download ==
    /\ pc = "download"
    /\ \/ pc' = "flatten" /\ UNCHANGED response
       \/ Respond(404, Str(<<"Template not found: ", "_Templates/FB_Deal_Memo_Template.docx", " - ", "<error>">>))
    /\ UNCHANGED <<request, loc, mapper, schema_data, ctx, pre_items, stages, s3>>
\* "except Exception" around fill_template in _run_fill_from_deal
RenderFailed == Respond(400, Str(<<"Template render failed: ", "<error>">>))

\* fill_template, lines 1876-1878: the images are prepared, the schema is flattened
Flatten ==
    /\ pc = "flatten"
    /\ IF prepare_images_for_template(loc.images) = Exc
       THEN RenderFailed /\ UNCHANGED <<loc, ctx, stages>>
       ELSE /\ loc' = [loc EXCEPT !.inline_images = prepare_images_for_template(loc.images)]
            /\ ctx' = flatten_schema_for_template(schema_data)
            /\ stages' = Append(stages, "flatten")
            /\ pc' = "escape"
            /\ UNCHANGED response
    /\ UNCHANGED <<request, mapper, schema_data, pre_items, s3>>

\* fill_template without line 1880: the flattened data goes on unescaped
EscapeSkipped ==
    /\ pc = "escape"
    /\ pc' = "merge"
    /\ UNCHANGED <<request, loc, mapper, schema_data, ctx, pre_items, stages, s3, response>>

\* line 1880
Escape ==
    /\ pc = "escape"
    /\ ctx' = escape_jinja_syntax(ctx)
    /\ stages' = Append(stages, "escape")
    /\ pc' = "merge"
    /\ UNCHANGED <<request, loc, mapper, schema_data, pre_items, s3, response>>

\* lines 1881-1883
Merge ==
    /\ pc = "merge"
    /\ ctx' = MergeImages(ctx, loc.inline_images)
    /\ stages' = Append(stages, "merge")
    /\ pc' = "ensure_items"
    /\ UNCHANGED <<request, loc, mapper, schema_data, pre_items, s3, response>>

\* line 1884; pre_items keeps the context the pass was handed
EnsureItems ==
    /\ pc = "ensure_items"
    /\ pre_items' = ctx
    /\ ctx' = _ensure_items_on_dicts(ctx, TRUE)
    /\ stages' = Append(stages, "ensure_items")
    /\ pc' = "wrap"
    /\ UNCHANGED <<request, loc, mapper, schema_data, s3, response>>

\* lines 1885-1922
Wrap ==
    /\ pc = "wrap"
    /\ ctx' = WrapAndGuard(ctx)
    /\ stages' = Append(stages, "wrap")
    /\ pc' = "render"
    /\ UNCHANGED <<request, loc, mapper, schema_data, pre_items, s3, response>>

\* what the template engine can say when it fails
RenderErrors == {"<undefined variable>", "<template syntax error>"}

\* the render error caught again by "except Exception" of _run_fill_from_deal
\* and answered with its own message
RenderErrorRewrapped ==
    /\ pc = "render"
    /\ stages' = Append(stages, "render")
    /\ \/ pc' = "unique" /\ UNCHANGED response
       \/ RenderFailed
    /\ UNCHANGED <<request, loc, mapper, schema_data, ctx, pre_items, s3>>

\* doc.render(context), lines 1924-1927: it succeeds, or it raises and
\* fill_template raises HTTPException(400), which both callers re-raise
Render ==
    /\ pc = "render"
    /\ stages' = Append(stages, "render")
    /\ \/ pc' = "unique" /\ UNCHANGED response
       \/ \E e \in RenderErrors : Respond(400, Str(<<"Template rendering failed: ", e>>))
    /\ UNCHANGED <<request, loc, mapper, schema_data, ctx, pre_items, s3>>

\* out_key = get_unique_output_key(output_key): a key counts as taken when
\* head_object returns and as free when it raises for any reason, so the call
\* sees some of the objects the bucket holds
UniqueKey ==
    /\ pc = "unique"
    /\ \E found \in SUBSET s3 :
          loc' = [loc EXCEPT !.out_key = get_unique_output_key(loc.output_key, found)]
    /\ stages' = Append(stages, "get_unique_output_key")
    /\ pc' = "upload"
    /\ UNCHANGED <<request, mapper, schema_data, ctx, pre_items, s3, response>>

\* upload_to_s3: the object is put and the handler returns its result, or S3
\* fails and upload_to_s3 raises HTTPException(500)
Upload ==
    /\ pc = "upload"
    /\ stages' = Append(stages, "upload_to_s3")
    /\ \/ /\ s3' = s3 \cup {loc.out_key}
          /\ Respond(200, loc.out_key)
       \/ /\ Respond(500, Str(<<"Failed to upload to S3: ", "<error>">>))
          /\ UNCHANGED s3
    /\ UNCHANGED <<request, loc, mapper, schema_data, ctx, pre_items>>

Next ==
    \/ fill_from_deal_endpoint
    \/ _run_fill_from_deal
    \/ Construct
    \/ Transform
    \/ Download
    \/ Flatten
    \/ Escape
    \/ Merge
    \/ EnsureItems
    \/ Wrap
    \/ Render
    \/ UniqueKey
    \/ Upload

Spec == Init /\ [][Next]_vars

-----------------------------------------------------------------------------
(* _ensure_items_on_dicts on its own *)

MaxNest == 1

\* mappings of texts and numbers with and without an 'items' key of their own
InnerMappings ==
    LET leaves == {Num(1), S("x")}
        own == leaves \cup {List(<<>>)}
    IN  {E0} \cup {Dict(<< <<"a", v>> >>) : v \in leaves}
             \cup {Dict(<< <<"items", w>> >>) : w \in own}
             \cup {Dict(<< <<"a", v>>, <<"items", w>> >>) : v \in leaves, w \in own}
             \cup {Dict(<< <<"items", w>>, <<"a", v>> >>) : v \in leaves, w \in own}

\* the values n levels above them: in a mapping without 'items', in a mapping
\* with 'items', in a list
RECURSIVE Nest(_)
Nest(n) ==
    IF n = 0 THEN InnerMappings
    ELSE UNION {{Dict(<< <<"in", x>> >>), Dict(<< <<"in", x>>, <<"items", List(<<>>)>> >>), List(<<x>>)} :
                    x \in Nest(n - 1)}

\* the contexts: a root with and without an 'items' key of its own
Contexts ==
    UNION {{Dict(<< <<"top", x>> >>), Dict(<< <<"top", x>>, <<"items", S("x")>> >>)} : x \in Nest(MaxNest)}

InitItems ==
    /\ request = [body |-> E0, q_output_key |-> None]
    /\ pc = "ensure_items"
    /\ loc = NoLocals
    /\ mapper = None
    /\ schema_data = None
    /\ ctx \in Contexts
    /\ pre_items = None
    /\ stages = <<>>
    /\ s3 = {}
    /\ response = None

SpecItems == InitItems /\ [][EnsureItems]_vars

-----------------------------------------------------------------------------
(* The markdown strippers on their own *)

MaxMarkdownLen == 4     \* characters of a text given to the strippers

\* the texts of at most n characters over the characters the markdown
\* patterns look at and one piece of other text
RECURSIVE MarkdownTexts(_)
MarkdownTexts(n) ==
    IF n = 0 THEN {<<>>}
    ELSE MarkdownTexts(n - 1)
         \cup {Append(t, c) : t \in {u \in MarkdownTexts(n - 1) : Len(u) = n - 1},
                              c \in {"#", "*", "_", "\\", "a", " ", "\n"}}

\* longer texts: nested emphasis, a header inside a header, a generated
\* prefix, more '#' than one header takes
LongMarkdownTexts ==
    { <<"*", "*", "*", "a", "*", "*", "*">>, <<"#", " ", "#", " ", "a">>, <<"\\", "#", " ", "a">>,
      <<"[GENERATED]", " ", "a">>, <<"[GENERATED]", " ", "[GENERATED]", " ", "a">>,
      <<"#", "#", "#", "#", "#", "#", "#", " ", "a">>, <<"a", "\n", "\n", "\n", "\n", "a">> }

InitMarkdown ==
    /\ request = [body |-> E0, q_output_key |-> None]
    /\ pc = "markdown"
    /\ loc = NoLocals
    /\ mapper = None
    /\ schema_data = None
    /\ ctx \in {Str(t) : t \in MarkdownTexts(MaxMarkdownLen) \cup LongMarkdownTexts}
    /\ pre_items = None
    /\ stages = <<>>
    /\ s3 = {}
    /\ response = None

\* text = f(text) for the stripper named name, on a fresh text or on its own result
Stripped(name, result) ==
    /\ pc = "markdown"
    /\ Len(stages) < 2 /\ \A i \in DOMAIN stages : stages[i] = name
    /\ pre_items' = ctx
    /\ ctx' = result
    /\ stages' = Append(stages, name)
    /\ UNCHANGED <<request, pc, loc, mapper, schema_data, s3, response>>

StripNarrative == Stripped("_strip_markdown", _strip_markdown(ctx))

StripLayer3Field == Stripped("strip_markdown", strip_markdown(ctx))

SpecMarkdown == InitMarkdown /\ [][StripNarrative \/ StripLayer3Field]_vars

-----------------------------------------------------------------------------
(* The null-like sanitizer on its own *)

MaxSanitizeLen == 3     \* words and whitespace characters of a value given to the sanitizer

\* the null-like words in several casings
NullWords ==
    {"none", "None", "NONE", "null", "Null", "undefined", "UNDEFINED", "n/a", "N/A",
     "[not available]", "[Not Available]"}

\* the texts of at most n pieces: null-like words, whitespace, other text
RECURSIVE SanitizerTexts(_)
SanitizerTexts(n) ==
    IF n = 0 THEN {<<>>}
    ELSE SanitizerTexts(n - 1)
         \cup {Append(t, c) : t \in {u \in SanitizerTexts(n - 1) : Len(u) = n - 1},
                              c \in NullWords \cup {" ", "\n", "a"}}

InitSanitize ==
    /\ request = [body |-> E0, q_output_key |-> None]
    /\ pc = "sanitize"
    /\ loc = NoLocals
    /\ mapper = None
    /\ schema_data = None
    /\ ctx \in {None} \cup {Str(t) : t \in SanitizerTexts(MaxSanitizeLen)}
    /\ pre_items = None
    /\ stages = <<>>
    /\ s3 = {}
    /\ response = None

\* value = self._str_or_empty(value)
Sanitize ==
    /\ pc = "sanitize"
    /\ stages = <<>>
    /\ pre_items' = ctx
    /\ ctx' = _str_or_empty(ctx)
    /\ stages' = <<"_str_or_empty">>
    /\ UNCHANGED <<request, pc, loc, mapper, schema_data, s3, response>>

SpecSanitize == InitSanitize /\ [][Sanitize]_vars

-----------------------------------------------------------------------------
(* _ensure_items_on_dicts on objects with identity *)

MaxObjects == 3
MaxRefs == 2
\* the depth of calls at which the interpreter raises RecursionError
MaxDepth == 5

ObjectIds == 1..MaxObjects

\* a reference to the object with identity i
Ref(i) == [t |-> "ref", id |-> i]

\* the heaps: every object is a mapping or a list of up to MaxRefs references
\* to objects, itself included; object 1, the context, is a mapping
Heaps ==
    LET refs == UNION {[1..n -> {Ref(i) : i \in ObjectIds}] : n \in 0..MaxRefs}
        keys == <<"a", "b", "c">>
        objects == {Dict([j \in DOMAIN c |-> <<keys[j], c[j]>>]) : c \in refs} \cup {List(c) : c \in refs}
    IN  {h \in [ObjectIds -> objects] : IsDict(h[1])}

\* obj.values() of a mapping, the elements of a list
Values(obj) == IF IsDict(obj) THEN [j \in DOMAIN obj.kv |-> obj.kv[j][2]] ELSE obj.xs

\* the call _ensure_items_on_dicts(context): the root is in seen and its
\* values are about to be walked; stages records the objects the calls process
InitHeap ==
    /\ request = [body |-> E0, q_output_key |-> None]
    /\ pc = "walk"
    /\ ctx \in Heaps
    /\ loc = [seen |-> {1}, stack |-> <<[obj |-> 1, i |-> 1, root |-> TRUE]>>]
    /\ mapper = None
    /\ schema_data = None
    /\ pre_items = ctx
    /\ stages = <<1>>
    /\ s3 = {}
    /\ response = None

\* the recursive call on the next value of the object in hand, lines 1859-1862
\* and 1866: it returns at once for an object in seen, adds a mapping to
\* seen, adds no list to seen
Recurse ==
    /\ pc = "walk"
    /\ LET n == Len(loc.stack)
           f == loc.stack[n]
           vs == Values(ctx[f.obj])
       IN  /\ f.i <= Len(vs)
           /\ LET v == vs[f.i].id
                  next == [loc.stack EXCEPT ![n].i = f.i + 1]
              IN  IF v \in loc.seen
                  THEN loc' = [loc EXCEPT !.stack = next] /\ UNCHANGED <<pc, stages>>
                  ELSE IF n = MaxDepth
                  THEN pc' = "RecursionError" /\ UNCHANGED <<loc, stages>>
                  ELSE /\ loc' = [seen |-> IF IsDict(ctx[v]) THEN loc.seen \cup {v} ELSE loc.seen,
                                  stack |-> Append(next, [obj |-> v, i |-> 1, root |-> FALSE])]
                       /\ stages' = Append(stages, v)
                       /\ UNCHANGED pc
    /\ UNCHANGED <<request, mapper, schema_data, ctx, pre_items, s3, response>>

\* the values are walked: a mapping other than the root gets its 'items',
\* lines 1865-1866, and the call returns
Return ==
    /\ pc = "walk"
    /\ LET n == Len(loc.stack)
           f == loc.stack[n]
           obj == ctx[f.obj]
       IN  /\ f.i > Len(Values(pre_items[f.obj]))
           /\ ctx' = IF IsDict(obj) /\ ~f.root /\ ~Has(obj, "items")
                     THEN [ctx EXCEPT ![f.obj] = Put(obj, "items", ItemsList(obj.kv))]
                     ELSE ctx
           /\ loc' = [loc EXCEPT !.stack = SubSeq(loc.stack, 1, n - 1)]
           /\ pc' = IF n = 1 THEN "walked" ELSE "walk"
    /\ UNCHANGED <<request, mapper, schema_data, pre_items, stages, s3, response>>

SpecHeap == InitHeap /\ [][Recurse \/ Return]_vars
-----------------------------------------------------------------------------
(* The currency formatter and parser on their own *)

MaxCurrencyLen == 3

\* the texts of at most n pieces over '$', ',', ' ', one word and numeric
\* chunks, with at most one numeric chunk in a text
RECURSIVE CurrencyTexts(_)
CurrencyTexts(n) ==
    LET chunks == {"950", "1250000", "35,610,000"}
    IN  IF n = 0 THEN {<<>>}
        ELSE CurrencyTexts(n - 1)
             \cup {Append(t, c) : t \in {u \in CurrencyTexts(n - 1) : Len(u) = n - 1},
                                  c \in {"$", ",", " ", "garbage"}}
             \cup {Append(t, c) : t \in {u \in CurrencyTexts(n - 1) :
                                            Len(u) = n - 1 /\ \A i \in DOMAIN u : u[i] \notin chunks},
                                  c \in chunks}

\* the values handed to the two functions: None, numbers of either sign below
\* and above a million and beyond the range of float, booleans, texts, and
\* values that are neither text nor number
CurrencyInputs ==
    {None, BigInt, Bool(TRUE), Bool(FALSE), E0, List(<<Num(1)>>)}
    \cup {Num(n) : n \in {0, 950, 999999, 1000000, 1250000, 35610000, -950, -1250000}}
    \cup {Str(t) : t \in CurrencyTexts(MaxCurrencyLen)}

InitCurrency ==
    /\ request = [body |-> E0, q_output_key |-> None]
    /\ pc = "currency"
    /\ loc = NoLocals
    /\ mapper = None
    /\ schema_data = None
    /\ ctx \in CurrencyInputs
    /\ pre_items = None
    /\ stages = <<>>
    /\ s3 = {}
    /\ response = None

\* self._fmt_currency(val)
FormatCurrency ==
    /\ pc = "currency"
    /\ stages = <<>>
    /\ pre_items' = ctx
    /\ ctx' = _fmt_currency(ctx)
    /\ stages' = <<"_fmt_currency">>
    /\ UNCHANGED <<request, pc, loc, mapper, schema_data, s3, response>>

\* parse_currency_to_number(val)
ParseCurrency ==
    /\ pc = "currency"
    /\ stages = <<>>
    /\ pre_items' = ctx
    /\ ctx' = parse_currency_to_number(ctx)
    /\ stages' = <<"parse_currency_to_number">>
    /\ UNCHANGED <<request, pc, loc, mapper, schema_data, s3, response>>

SpecCurrency == InitCurrency /\ [][FormatCurrency \/ ParseCurrency]_vars
-----------------------------------------------------------------------------
(* fill_template on data of any shape *)

\* the data handed to fill_template: at the root foreclosure_analysis absent,
\* None, not a mapping, or a mapping whose scenarios are absent, None, not
\* mappings or mappings with and without rows, assumptions and metrics; the
\* sections absent, None, empty, or with a foreclosure_analysis that is no
\* mapping
FlattenInputs ==
    LET scenarios == {None, S("x"), E0, Dict(<< <<"rows", List(<<Num(1)>>)>> >>),
                      Dict(<< <<"assumptions", Dict(<< <<"a", Num(1)>> >>)>>, <<"metrics", E0>>,
                              <<"rows", List(<<>>)>> >>)}
        fas == {None, S("x"), List(<<Num(1)>>), E0}
               \cup {Dict(<< <<k, v>> >>) : k \in {"default_interest_scenario", "scenario_note_rate"}, v \in scenarios}
        roots == {<<>>} \cup {<< <<"foreclosure_analysis", f>> >> : f \in fas}
                 \cup {<< <<"note_interest_scenario", v>> >> : v \in scenarios}
        sections == {<<>>, << <<"sections", None>> >>, << <<"sections", E0>> >>}
                    \cup {<< <<"sections", Dict(<< <<"foreclosure_analysis", f>> >>)>> >> :
                            f \in {None, S("x"), List(<<Num(1)>>)}}
    IN  {Dict(r \o s) : r \in roots, s \in sections}

\* fill_template(template, data, {}) has been called
InitFlatten ==
    /\ request = [body |-> E0, q_output_key |-> None]
    /\ pc = "flatten"
    /\ loc = [NoLocals EXCEPT !.images = E0, !.inline_images = E0]
    /\ mapper = None
    /\ schema_data \in FlattenInputs
    /\ ctx = None
    /\ pre_items = None
    /\ stages = <<"transform">>
    /\ s3 = {}
    /\ response = None

\* line 1878 on that data; an exception leaves fill_template and its caller
FlattenData ==
    /\ pc = "flatten"
    /\ ctx' = flatten_schema_for_template(schema_data)
    /\ stages' = Append(stages, "flatten")
    /\ IF ctx' = Exc THEN Unhandled ELSE pc' = "escape" /\ UNCHANGED response
    /\ UNCHANGED <<request, loc, mapper, schema_data, pre_items, s3>>

SpecFlatten == InitFlatten /\ [][FlattenData \/ Escape \/ Merge \/ EnsureItems \/ Wrap]_vars
-----------------------------------------------------------------------------
(* The transform contract *)

\* test_transform.py: the names of the top-level variables the template needs
REQUIRED_TOP_LEVEL_VARS ==
    {"cover", "toc", "deal_facts", "deal_facts_raw", "transaction_overview", "loan_terms", "loan_terms_raw",
     "interest_rate_display", "origination_fee_display", "exit_fee_display", "leverage", "leverage_raw",
     "LTC", "LTV", "sources_list", "uses_list", "sources_total", "uses_total", "sources_uses_max_rows",
     "sources_and_uses", "capital_stack_sources", "capital_stack_uses", "capital_stack_total",
     "capital_stack_title", "capital_stack", "sponsor_table", "sponsors", "sponsor",
     "loan_issues_income_producing", "loan_issues_development", "loan_issues_disclosure", "loan_issues",
     "collaborative_ventures_list", "collaborative_ventures_disclosure", "collaborative_ventures",
     "closing_disbursement", "disbursement_payoff", "disbursement_broker_fee", "disbursement_origination_fee",
     "disbursement_closing_costs", "disbursement_lender_legal", "disbursement_borrower_legal",
     "disbursement_misc", "disbursement_interest_reserve", "disbursement_total",
     "disbursement_sponsor_equity", "disbursement_fairbridge_release", "disbursement_rows", "due_diligence",
     "property_overview", "property_overview_narrative", "property_value", "property", "location_overview",
     "market_overview", "location", "market", "narratives", "exit_strategy", "foreclosure_assumptions",
     "active_litigation", "sections", "deal_highlights", "risks_and_mitigants", "validation_flags",
     "third_party_reports", "foreclosure_analysis", "zoning_entitlements", "financial_information",
     "equity_partner"}

\* test_transform.py: the sections the "sections" mapping must hold
REQUIRED_SECTIONS ==
    {"transaction_overview", "executive_summary", "sources_and_uses", "loan_terms", "property", "litigation",
     "location", "market", "sponsorship", "third_party_reports", "financial_analysis", "exit_strategy",
     "zoning_entitlements", "foreclosure_analysis", "risks_and_mitigants", "deal_highlights", "due_diligence",
     "validation_flags"}

\* the keys of a mapping
Keys(d) == {d.kv[i][1] : i \in DOMAIN d.kv}

\* the sections transform() builds for the empty record: their sub-keys are
\* the fixed sets every other record is compared with
EmptyRecordSections == Get(transform(__init__(E0)), "sections")

\* transform() has just run (or raised) and nothing after it has
JustTransformed == stages = <<"transform">>

\* whether the mapping transform() returned has the promised shape
TransformShape(out) ==
    /\ IsDict(out)
    /\ REQUIRED_TOP_LEVEL_VARS \subseteq Keys(out)
    /\ IsDict(Get(out, "sections"))
    /\ \A sec \in REQUIRED_SECTIONS :
          /\ Has(Get(out, "sections"), sec)
          /\ IsDict(Get(Get(out, "sections"), sec))
          /\ Keys(Get(Get(out, "sections"), sec)) = Keys(Get(EmptyRecordSections, sec))

\* C1: for every deal record that is a mapping, transform() returns a mapping
\* holding 'cover', every REQUIRED_TOP_LEVEL_VARS key and a 'sections' mapping
\* with all 18 REQUIRED_SECTIONS, each a mapping with the same fixed sub-keys.
C1_TransformReturnsRequiredShape ==
    (mapper # None => ~InitRaised(mapper)) /\ (JustTransformed => TransformShape(schema_data))

\* C2: constructing the mapper and calling transform() never raises for a deal
\* mapping whose fields are missing or of an unexpected JSON type.
C2_MapperNeverRaises ==
    /\ mapper # None => ~InitRaised(mapper)
    /\ JustTransformed => schema_data # Exc

-----------------------------------------------------------------------------
(* The escaping of template delimiters *)

\* every value met from v through mappings and lists, v included
RECURSIVE Reachable(_)
Reachable(v) ==
    {v} \cup
    CASE v.t = "list" -> UNION {Reachable(v.xs[i]) : i \in DOMAIN v.xs}
      [] v.t \in {"dict", "wrapped"} -> UNION {Reachable(v.kv[i][2]) : i \in DOMAIN v.kv}
      [] OTHER -> {}

\* the two-character delimiters of the template engine
Delimiters == {<<"{", "{">>, <<"}", "}">>, <<"{", "%">>, <<"%", "}">>}

\* whether the text s holds a delimiter
HasDelimiter(s) == \E i \in 1..(Len(s) - 1) : <<s[i], s[i + 1]>> \in Delimiters

\* C3: no string at any depth of the context escape_jinja_syntax returns holds
\* one of the delimiters '{{', '}}', '{%', '%}', runs such as '{{{' included.
C3_EscapedHoldsNoDelimiter ==
    pc = "merge" => \A v \in Reachable(ctx) : IsStr(v) => ~HasDelimiter(v.s)

-----------------------------------------------------------------------------
(* The 'items' members *)

\* what _ensure_items_on_dicts must have made (after) of a value (before):
\* the same keys in the same places, and behind them, on a mapping that is not
\* the root and had no 'items', one 'items' list of exactly the pairs before it
RECURSIVE ItemsEnsured(_, _, _)
ItemsEnsured(before, after, root) ==
    CASE before.t = "dict" ->
            LET n == Len(before.kv)
                added == ~root /\ ~Has(before, "items")
            IN  /\ after.t = "dict"
                /\ Len(after.kv) = IF added THEN n + 1 ELSE n
                /\ \A i \in 1..n : /\ after.kv[i][1] = before.kv[i][1]
                                   /\ ItemsEnsured(before.kv[i][2], after.kv[i][2], FALSE)
                /\ added => /\ after.kv[n + 1][1] = "items"
                            /\ after.kv[n + 1][2].t = "list"
                            /\ Len(after.kv[n + 1][2].xs) = n
                            /\ \A i \in 1..n : after.kv[n + 1][2].xs[i] =
                                    [t |-> "tuple", xs |-> <<S(after.kv[i][1]), after.kv[i][2]>>]
      [] before.t = "list" ->
            /\ after.t = "list"
            /\ Len(after.xs) = Len(before.xs)
            /\ \A i \in DOMAIN before.xs : ItemsEnsured(before.xs[i], after.xs[i], FALSE)
      [] OTHER -> after = before

\* C4: after _ensure_items_on_dicts(context), every mapping under the root
\* that had no 'items' key has 'items' equal to the list of exactly its other
\* key/value pairs, and the root has got no 'items' key from the pass.
C4_ItemsSynthesized == pc = "wrap" => ItemsEnsured(pre_items, ctx, TRUE)

\* the pass has run on a root without 'items' over a mapping without 'items'
\* that holds a mapping with an 'items' key of its own
C4_Witness ==
    /\ pc = "wrap"
    /\ ~Has(pre_items, "items") /\ ~Has(ctx, "items")
    /\ IsDict(Get(pre_items, "top")) /\ ~Has(Get(pre_items, "top"), "items")
    /\ Get(Get(ctx, "top"), "items") = List(<<Pair("in", Get(Get(ctx, "top"), "in"))>>)
    /\ Get(Get(pre_items, "top"), "in") = Dict(<< <<"items", Num(1)>>, <<"a", S("x")>> >>)

\* the mappings of the context other than the root
NestedMappings(context) == {d \in Reachable(context) \ {context} : d.t \in {"dict", "wrapped"}}

\* C5: in the context handed to the renderer, the 'items' member of every
\* nested mapping is a list that yields all and only the mapping's own
\* key/value pairs, also when the mapping carried an 'items' key before.
C5_ItemsYieldOwnPairs ==
    pc = "render" =>
        \A d \in NestedMappings(ctx) :
            /\ IsList(Get(d, "items"))
            /\ Get(d, "items") = ItemsList(SelectSeq(d.kv, LAMBDA e : e[1] # "items"))

\* C6: in the context handed to the renderer, loan_issues.income_producing and
\* loan_issues.development are lists, whatever shape the input gave them and
\* whether or not loan_issues was wrapped.
C6_LoanIssuesAreLists ==
    pc = "render" =>
        /\ IsList(Get(Get(ctx, "loan_issues"), "income_producing"))
        /\ IsList(Get(Get(ctx, "loan_issues"), "development"))

-----------------------------------------------------------------------------
(* The stages of the deal-fill path *)

\* the stages in the order of the code
StageOrder ==
    <<"transform", "flatten", "escape", "merge", "ensure_items", "wrap", "render",
      "get_unique_output_key", "upload_to_s3">>

\* the context the stages make of a schema and the prepared images when each
\* consumes what the one before it returned
Pipeline(schema, inline_images) ==
    WrapAndGuard(_ensure_items_on_dicts(
        MergeImages(escape_jinja_syntax(flatten_schema_for_template(schema)), inline_images), TRUE))

\* the renderer is about to be invoked or has been
AtRenderer == pc = "render" \/ (\E i \in DOMAIN stages : stages[i] = "render")

\* C7: the stages run in the order transform, flatten, escape, image merge,
\* _ensure_items_on_dicts and wrapping, render, each on the output of the one
\* before; the renderer never gets a context for which one was skipped or moved.
C7_StagesInFixedOrder ==
    /\ Len(stages) <= Len(StageOrder) /\ stages = SubSeq(StageOrder, 1, Len(stages))
    /\ AtRenderer => /\ Len(stages) >= 6
                     /\ ctx = Pipeline(schema_data, loc.inline_images)

\* the renderer is reached with the six stages behind it, on a context the
\* escaping and the items pass have changed
C7_Witness ==
    /\ pc = "render"
    /\ stages = SubSeq(StageOrder, 1, 6)
    /\ ctx # flatten_schema_for_template(schema_data)
    /\ Get(ctx, "toc") = Str(<<"{", " ", "{", "TOC", "}", " ", "}">>)

\* the renderer has raised: render is the last stage and the handler is done
RenderRaised == pc = "done" /\ stages = SubSeq(StageOrder, 1, 7)

\* C8: when the renderer raises, the one error the caller gets is HTTP 400
\* 'Template rendering failed: <engine message>', unchanged by
\* _run_fill_from_deal; no key is chosen, nothing is uploaded, nothing follows.
C8_RenderFailureSurfacedOnce ==
    RenderRaised =>
        /\ \E e \in RenderErrors : response = Response(400, Str(<<"Template rendering failed: ", e>>))
        /\ loc.out_key = None
        /\ s3 \in Buckets(request.body)
        /\ ~ENABLED Next

\* the renderer has raised on the context of a deal
C8_Witness == RenderRaised /\ response.status = 400 /\ IsDict(ctx)

\* a body that is neither a deal mapping nor a list of deal mappings, or a
\* wrapped payload with an element that is not a mapping
InvalidShape(body) ==
    \/ ~IsDict(body) /\ ~IsList(body)
    \/ IsList(body) /\ \E i \in DOMAIN body.xs : ~IsDict(body.xs[i])
    \/ /\ IsDict(body) /\ IsList(Get(body, "payload"))
       /\ \E i \in DOMAIN Get(body, "payload").xs : ~IsDict(Get(body, "payload").xs[i])

\* C9: a request of an invalid input shape is rejected at the boundary with
\* the invalid-shape error (a 4xx naming the shape), before the mapper is
\* constructed and before any builder, download or upload runs.
C9_InvalidShapeRejected ==
    InvalidShape(request.body) =>
        /\ mapper = None /\ stages = <<>>
        /\ pc = "done" => response.status \in {400, 422}

\* C10: after transform() and flatten_schema_for_template, for every section
\* name that is also a root key, a field present in both flat[S] and
\* flat['sections'][S] has the same value in both.
C10_RootAndSectionsAgree ==
    pc = "escape" =>
        \A i \in DOMAIN Get(ctx, "sections").kv :
            LET name == Get(ctx, "sections").kv[i][1]
                sec == Get(ctx, "sections").kv[i][2]
                top == Get(ctx, name)
            IN  Has(ctx, name) /\ IsDict(top) /\ IsDict(sec) =>
                    \A j \in DOMAIN sec.kv :
                        Has(top, sec.kv[j][1]) => Get(top, sec.kv[j][1]) = sec.kv[j][2]


\* the values the mapping-valued sections of data hold under the sub-key k,
\* in the order flatten iterates the sections
SectionFields(data, k) ==
    LET secs == Or(Get(data, "sections"), E0)
        with == SelectSeq([i \in DOMAIN secs.kv |-> secs.kv[i][2]],
                          LAMBDA sec : IsDict(sec) /\ Has(sec, k))
    IN  [i \in DOMAIN with |-> Get(with[i], k)]

\* the sub-keys of the mapping-valued sections of data
SubKeys(data) ==
    LET secs == Or(Get(data, "sections"), E0)
    IN  UNION {Keys(secs.kv[i][2]) : i \in {i \in DOMAIN secs.kv : IsDict(secs.kv[i][2])}}

\* C11: flatten_schema_for_template copies a section sub-field k to the root
\* only where the root has no key k: a root key of the input never takes the
\* value of a section field of the same name, and a sub-key the root lacks
\* takes the value of the first section, in iteration order, that has it.
C11_SectionFieldsNeverOverwriteRoot ==
    pc = "escape" =>
        \A k \in SubKeys(schema_data) :
            LET fields == SectionFields(schema_data, k)
            IN  IF Has(schema_data, k)
                THEN \/ Get(ctx, k) = Get(schema_data, k)
                     \/ \A i \in DOMAIN fields : Get(ctx, k) # fields[i]
                ELSE Get(ctx, k) = fields[1]

\* flatten has run on a mapping in which a root key differs from a section
\* field of its name and two sections hold different values under a sub-key
\* the root lacks
C11_Witness ==
    /\ pc = "escape"
    /\ \E k \in SubKeys(schema_data) :
        /\ Has(schema_data, k)
        /\ \E i \in DOMAIN SectionFields(schema_data, k) :
                SectionFields(schema_data, k)[i] # Get(schema_data, k)
    /\ \E k \in SubKeys(schema_data) :
        /\ ~Has(schema_data, k)
        /\ Len(SectionFields(schema_data, k)) > 1
        /\ SectionFields(schema_data, k)[2] # SectionFields(schema_data, k)[1]
        /\ Get(ctx, k) = SectionFields(schema_data, k)[1]


\* the value of the row labelled label in a list of label/value rows
RowValue(rows, label) ==
    LET at == SelectSeq(Iter(rows), LAMBDA r : IsDict(r) /\ Get(r, "label") = S(label))
    IN  IF at = <<>> THEN None ELSE Get(at[1], "value")

\* the fields of the transaction overview that both record shapes can carry:
\* sub-record of the current shape, the same of the Layer 3 shape, field,
\* list of the section, label of the row
LayeredFields(deal) ==
    LET memo == Or(Get(deal, "deal_memo_ready"), E0)
        extracted == Or(Get(deal, "extracted_data"), E0)
        facts(f, label) == <<Get(deal, "deal_facts"), Get(memo, "deal_facts_table"), f, "deal_facts", label>>
        ratios(f, label) == <<Get(deal, "leverage"), Get(memo, "leverage_ratios_table"), f, "leverage_metrics", label>>
        terms(f, label) == <<Get(deal, "loan_terms"), Get(extracted, "loan_terms"), f, "loan_terms", label>>
    IN  { facts("property_type", "Property Type"), facts("loan_purpose", "Loan Purpose"),
          ratios("ltv_at_closing", "LTV at Closing"), ratios("ltv_at_maturity", "LTV at Maturity"),
          terms("exit_fee", "Exit Fee"), terms("prepayment", "Prepayment") }

\* C12: the ordered fallback is applied per field: where a deal's non-empty
\* current-shape sub-record (deal_facts, leverage, loan_terms) lacks a field
\* that the legacy shape provides, the transaction overview shows the legacy
\* value, not the placeholder, and a field the current shape has keeps its
\* current-shape value.
C12_FallbackIsPerField ==
    JustTransformed /\ IsDict(loc.deal) /\ IsDict(schema_data) =>
        \A e \in LayeredFields(loc.deal) :
            LET shown == RowValue(Get(Get(Get(schema_data, "sections"), "transaction_overview"), e[4]), e[5])
            IN  IsDict(e[1]) /\ Truthy(e[1]) =>
                    IF Has(e[1], e[3]) THEN shown = _str_or_empty(Get(e[1], e[3]))
                    ELSE IsDict(e[2]) /\ Has(e[2], e[3]) => shown = _str_or_empty(Get(e[2], e[3]))


\* the key the sponsor aggregation compares names by: lower-cased, without
\* commas, periods and the token "jr"
NameKey(name) ==
    IF ~IsStr(name) THEN <<>>
    ELSE LET kept == SelectSeq(name.s, LAMBDA c : c \notin {",", ".", "Jr", "JR", "jr"})
         IN  Strip(Str([i \in DOMAIN kept |-> Lower(kept[i])])).s

\* whether no two entries of a list of entities have the same name key
OnePerKey(entities) ==
    \A i, j \in DOMAIN Iter(entities) :
        i # j => NameKey(Get(Iter(entities)[i], "name")) # NameKey(Get(Iter(entities)[j], "name"))

\* C13: sponsor entities are deduplicated by normalized name: when principals
\* or guarantor names hold several entries of one key ('Steve Hudson' and
\* 'Steve Hudson Jr.'), sponsor_bios, principal_financials and
\* _sponsors_detail hold exactly one entity for that key.
C13_SponsorsDeduplicated ==
    JustTransformed /\ IsDict(schema_data) =>
        /\ OnePerKey(Get(Get(Get(schema_data, "sections"), "sponsorship"), "sponsor_bios"))
        /\ OnePerKey(Get(Get(Get(schema_data, "sections"), "sponsorship"), "_sponsors_detail"))
        /\ OnePerKey(Get(schema_data, "principal_financials"))

\* the sum of the parsed values the principals hold under field
RECURSIVE SumParsed(_, _)
SumParsed(principals, field) ==
    IF principals = <<>> THEN 0
    ELSE parse_currency_to_number(Or(Get(Head(principals), field), None)).n + SumParsed(Tail(principals), field)

\* C14: when the principals carry net_worth / liquid_assets, the combined
\* net worth and liquidity of the sponsorship financial summary are the sums
\* of the principals' parsed values, not the guarantors' combined_* fields.
C14_CombinedFiguresAreSums ==
    JustTransformed /\ IsDict(schema_data) /\ IsDict(Get(loc.deal, "sponsor")) =>
        LET principals == DictsOf(Or(Get(Get(loc.deal, "sponsor"), "principals"), List(<<>>)))
            rows == Iter(Get(Get(Get(schema_data, "sections"), "sponsorship"), "financial_summary"))
            shown == {parse_currency_to_number(Get(rows[i], "value")).n : i \in DOMAIN rows}
        IN  (\E i \in DOMAIN principals : Has(principals[i], "net_worth") \/ Has(principals[i], "liquid_assets")) =>
                /\ SumParsed(principals, "net_worth") \in shown
                /\ SumParsed(principals, "liquid_assets") \in shown


\* sections.sponsorship.track_record of the mapping transform() returned
TrackRecord == Iter(Get(Get(Get(schema_data, "sections"), "sponsorship"), "track_record"))

\* C15: sections.sponsorship.track_record has at most 10 entries, however
\* many collaborative_ventures items the deal contains.
C15_TrackRecordCapped ==
    JustTransformed /\ IsDict(schema_data) => Len(TrackRecord) <= 10

\* the texts a venture names its property by, null-like texts counting as none
PropertyTexts(v) ==
    {_str_or_empty(Get(v, f)) : f \in {"property_address", "address", "property_name"}} \ {Empty}

\* C16: track_record is never empty: it is the single placeholder entry when
\* no collaborative-venture item is a mapping with a non-empty
\* property_address, address or property_name, and otherwise has one entry
\* per such venture, in input order, and no placeholder.
C16_TrackRecordPlaceholder ==
    JustTransformed /\ IsDict(schema_data) /\ IsDict(loc.deal) =>
        LET qualifying == SelectSeq(Ventures(loc.deal), LAMBDA v : IsDict(v) /\ PropertyTexts(v) # {})
            placeholder == Dict(<< <<"property", S("See sponsor documentation")>>, <<"acquisition_date", S("-")>>,
                                   <<"acquisition_price", S("-")>>, <<"outcome", S("-")>> >>)
        IN  IF qualifying = <<>> THEN TrackRecord = <<placeholder>>
            ELSE /\ Len(TrackRecord) = Len(qualifying)
                 /\ \A i \in DOMAIN qualifying : Get(TrackRecord[i], "property") \in PropertyTexts(qualifying[i])


\* a non-empty text that ends in the percent sign and has no whitespace
\* around it (_str_or_empty would strip it in the row, not in root LTV)
IsPercentText(v) == IsStr(v) /\ v.s # <<>> /\ v.s[Len(v.s)] = "%" /\ Strip(v) = v

\* whether the context c shows v as root LTV and in the row 'LTV at Closing'
\* of sections.transaction_overview.leverage_metrics
ShowsLTV(c, v) ==
    /\ Get(c, "LTV") = v
    /\ \E i \in DOMAIN Iter(Get(Get(Get(c, "sections"), "transaction_overview"), "leverage_metrics")) :
            Iter(Get(Get(Get(c, "sections"), "transaction_overview"), "leverage_metrics"))[i]
                = Dict(<< <<"label", S("LTV at Closing")>>, <<"value", v>> >>)

\* the deal's leverage.ltv_at_closing
ClosingLTV == Get(Or(Get(loc.deal, "leverage"), E0), "ltv_at_closing")

ExpectedType(k) ==
    CASE k \in {"toc", "interest_rate_display", "origination_fee_display", "exit_fee_display", "LTC", "LTV",
                "sources_total", "uses_total", "capital_stack_total", "capital_stack_title",
                "loan_issues_disclosure", "collaborative_ventures_disclosure", "disbursement_payoff",
                "disbursement_broker_fee", "disbursement_origination_fee", "disbursement_closing_costs",
                "disbursement_lender_legal", "disbursement_borrower_legal", "disbursement_misc",
                "disbursement_interest_reserve", "disbursement_total", "disbursement_sponsor_equity",
                "disbursement_fairbridge_release", "property_overview_narrative"} -> {"str"}
      [] k \in {"sources_list", "uses_list", "capital_stack_sources", "capital_stack_uses", "sponsor_table",
                "sponsors", "loan_issues_income_producing", "loan_issues_development",
                "collaborative_ventures_list", "disbursement_rows"} -> {"list"}
      [] k = "sources_uses_max_rows" -> {"num", "bool"}
      [] k = "equity_partner" -> {"str", "dict"}
      [] OTHER -> {"dict"}

\* C18: every REQUIRED_TOP_LEVEL_VARS key of the mapping transform() returns
\* has the type the table expects, whatever JSON types the deal's fields
\* have: LTC, LTV, the disbursement_* and *_display values and the totals are
\* strings; sponsors, capital_stack_sources and capital_stack_uses are lists.
C18_RequiredVarsHaveExpectedTypes ==
    JustTransformed /\ IsDict(schema_data) =>
        \A k \in REQUIRED_TOP_LEVEL_VARS :
            Has(schema_data, k) => Get(schema_data, k).t \in ExpectedType(k)


\* C19: strip_markdown is idempotent: applying a stripper to its own result
\* changes nothing, also for texts with nested emphasis ('***a***'), a header
\* marker inside a header ('# # a') and escaped markers ('\# a').
C19_StripMarkdownIdempotent ==
    pc = "markdown" /\ Len(stages) = 2 => ctx = pre_items

\* whether v is None or a text that, stripped and case-folded, is a null-like word
NullLike(v) == v = None \/ (IsStr(v) /\ Len(Strip(v).s) = 1 /\ Strip(v).s[1] \in NullWords)

\* C20: the sanitizer returns the empty text, and never the literal 'None',
\* for None and for every text that after stripping surrounding whitespace
\* and case-folding is 'none', 'null', 'undefined', 'n/a' or '[not available]'.
C20_NullLikeSanitizedToEmpty ==
    stages = <<"_str_or_empty">> /\ NullLike(pre_items) => ctx = Empty /\ ctx # S("None")

\* the sanitizer has been given a null-like word in capitals with whitespace around it
C20_Witness ==
    /\ stages = <<"_str_or_empty">>
    /\ IsStr(pre_items) /\ Len(pre_items.s) = 3 /\ pre_items.s[2] \in {"N/A", "NONE", "[Not Available]"}
    /\ NullLike(pre_items)
    /\ ctx = Empty

\* the request supplied no images: "images" is absent from the body or empty
NoImagesSupplied == loc.images = E0

\* the context fill_template hands to the renderer is complete
ContextBuilt == stages = SubSeq(StageOrder, 1, 6)

\* C21: when no images are supplied, the context fill_template passes to the
\* renderer has a key 'images' whose value is the empty list.
C21_ImagesDefaultIsEmptyList ==
    ContextBuilt /\ NoImagesSupplied => Has(ctx, "images") /\ Get(ctx, "images") = List(<<>>)

\* how many calls have processed object o
Visits(o) == Cardinality({j \in DOMAIN stages : stages[j] = o})

\* C22: _ensure_items_on_dicts terminates on every finite context, also when
\* objects are shared or refer to each other cyclically, and processes each
\* distinct mapping and each distinct list exactly once: no RecursionError,
\* no object processed twice, and after the pass every object a processed
\* object refers to has been processed.
C22_EachObjectVisitedOnce ==
    /\ pc # "RecursionError"
    /\ \A o \in ObjectIds : Visits(o) <= 1
    /\ pc = "walked" =>
          \A o \in ObjectIds : Visits(o) = 1 =>
              \A j \in DOMAIN Values(pre_items[o]) : Visits(Values(pre_items[o])[j].id) = 1

-----------------------------------------------------------------------------
(* Two context assemblies at once *)

Assemblies == {1, 2}

\* the deals of the two requests: the record shapes and a narrative that
\* holds template delimiters
PairDeals ==
    LayeredDeals \cup {Dict(<< <<"deal_id", S("D1")>>,
                              <<"narratives", Dict(<< <<"exit_strategy", Str(<<"{", "{", "a">>)>> >>)>> >>)}

\* one frame of locals for every assembly, whatever the other one does
OneFrame(a) == 1

\* where assembly a keeps mapper, schema_data, flat_data and context: they are
\* locals of its own calls of _run_fill_from_deal and fill_template
Frame(a) == a

\* two requests for different deals have entered _run_fill_from_deal
InitPair ==
    /\ request \in {r \in [Assemblies -> PairDeals] : r[1] # r[2]}
    /\ pc = [a \in Assemblies |-> "transform"]
    /\ loc = NoLocals
    /\ mapper = [a \in Assemblies |-> None]
    /\ schema_data = [a \in Assemblies |-> None]
    /\ ctx = [a \in Assemblies |-> None]
    /\ pre_items = None
    /\ stages = [a \in Assemblies |-> <<>>]
    /\ s3 = {}
    /\ response = None

\* the next step of assembly a: the mapping (lines 1991-1992), then the steps
\* of fill_template up to the wrapping (1878-1887), each on a's own locals
Advance(a) ==
    /\ pc[a] \in {StageOrder[i] : i \in 1..6}
    /\ LET f == Frame(a)
           i == CHOOSE j \in 1..6 : StageOrder[j] = pc[a]
           m == __init__(request[a])
       IN  /\ schema_data' = IF i = 1 THEN [schema_data EXCEPT ![f] = transform(m)] ELSE schema_data
           /\ mapper' = IF i = 1
                         THEN [mapper EXCEPT ![f] = [m EXCEPT !.deal = deal_after_transform(m, schema_data'[f])]]
                         ELSE mapper
           /\ ctx' = [ctx EXCEPT ![f] =
                        CASE i = 1 -> @
                          [] i = 2 -> flatten_schema_for_template(schema_data[f])
                          [] i = 3 -> escape_jinja_syntax(@)
                          [] i = 4 -> MergeImages(@, E0)
                          [] i = 5 -> _ensure_items_on_dicts(@, TRUE)
                          [] i = 6 -> WrapAndGuard(@)]
           /\ stages' = [stages EXCEPT ![a] = Append(@, StageOrder[i])]
           /\ pc' = [pc EXCEPT ![a] = StageOrder[i + 1]]
    /\ UNCHANGED <<request, loc, pre_items, s3, response>>

SpecPair == InitPair /\ [][\E a \in Assemblies : Advance(a)]_vars
InMillions(n) ==
    CASE n = 1000000 -> "1.00M" [] n = 1250000 -> "1.25M" [] n = 35610000 -> "35.61M"
      [] n = -1250000 -> "-1.25M" [] OTHER -> "?"

\* whether float() accepts the text
Parsable(v) == IsStr(v) /\ Len(Strip(v).s) = 1 /\ Strip(v).s[1] \in {"950", "1250000"}

\* C24: _fmt_currency never raises and returns 'N/A' for None, '$X.XXM' for
\* every number or numeric string of magnitude at least 1,000,000, '$' and the
\* thousands-grouped value for smaller numbers, an unparsable string unchanged.
C24_CurrencyFormatted ==
    stages = <<"_fmt_currency">> =>
        LET val == pre_items
            n == IF val.t = "num" THEN val.n ELSE IF Strip(val).s[1] = "950" THEN 950 ELSE 1250000
        IN  /\ ctx # Exc
            /\ val = None => ctx = S("N/A")
            /\ val.t = "num" \/ Parsable(val) =>
                  ctx = IF n >= 1000000 \/ n <= -1000000 THEN Str(<<"$", InMillions(n)>>)
                        ELSE Str(<<"$", Grouped(n)>>)
            /\ IsStr(val) /\ ~Parsable(val) => ctx = val

\* C25: parse_currency_to_number never raises: it returns the value of a
\* number and of a string that is numeric without '$', ',' and spaces
\* ('$35,610,000' -> 35610000), and 0 for None, the empty string, a value
\* that is neither string nor number, and an unparsable string ('garbage').
C25_CurrencyParsed ==
    stages = <<"parse_currency_to_number">> =>
        LET val == pre_items
        IN  /\ ctx # Exc
            /\ ctx.t = "num"
            /\ val.t = "num" => ctx = val
            /\ val = Str(<<"$", "35,610,000">>) => ctx = Num(35610000)
            /\ val = Str(<<" ", "950", ",">>) => ctx = Num(950)
            /\ val \in {None, Str(<<>>), E0, List(<<Num(1)>>), S("garbage"), Str(<<"$", "garbage">>)} => ctx = Num(0)

\* whether fa is a mapping whose four scenarios are mappings with rows,
\* assumptions and metrics
ScenariosComplete(fa) ==
    /\ fa.t \in {"dict", "wrapped"}
    /\ \A k \in {"default_interest_scenario", "note_interest_scenario", "scenario_default_rate", "scenario_note_rate"} :
          /\ Has(fa, k)
          /\ IsDict(Get(fa, k))
          /\ \A f \in {"rows", "assumptions", "metrics"} : Has(Get(fa, k), f)

\* C26: for every input mapping whose 'sections' is a mapping or absent,
\* flatten_schema_for_template returns a root foreclosure_analysis whose four
\* scenarios are mappings with rows, assumptions and metrics, whatever the
\* input's foreclosure_analysis is, and the same holds of the context after
\* the escaping and the wrapping of fill_template.
C26_ForeclosureScenariosComplete ==
    Len(stages) >= 2 =>
        /\ ctx # Exc
        /\ Has(ctx, "foreclosure_analysis")
        /\ ScenariosComplete(Get(ctx, "foreclosure_analysis"))


\* C27: constructing the mapper and calling transform() leave the input deal
\* record unchanged: the deal the caller holds after either step is the deal
\* it held before it, in every field (valuation, comps and narratives too).
C27_DealLeftUnchanged ==
    [][(Construct \/ Transform) => loc'.deal = loc.deal]_vars

\* the equity partner the deal supplies: a non-empty text or a mapping
SuppliedPartner ==
    LET ep == Get(loc.deal, "equity_partner")
    IN  IF IsDict(ep) \/ (IsStr(ep) /\ Truthy(ep)) THEN ep ELSE None

\* C28: when the deal supplies equity_partner as a non-empty text or as a
\* mapping, the equity_partner of the transform() output is that value.
C28_SuppliedEquityPartnerKept ==
    JustTransformed /\ IsDict(schema_data) /\ SuppliedPartner # None =>
        Get(schema_data, "equity_partner") = SuppliedPartner


\* the wrapped request's payload list, and the deal_index it names when that
\* is an integer outside 0 .. len(payload) - 1
IsWrapped == IsDict(request.body) /\ IsList(Get(request.body, "payload"))
IndexOutside ==
    /\ IsWrapped
    /\ LET payload == Get(request.body, "payload").xs
           index == GetD(request.body, "deal_index", Num(0))
       IN  payload # <<>> /\ index.t = "num" /\ (index.n < 0 \/ index.n >= Len(payload))
PayloadEmpty == IsWrapped /\ Get(request.body, "payload").xs = <<>>

\* C29: a wrapped request whose deal_index lies outside 0 .. len(payload) - 1
\* is answered 400 "deal_index must be between 0 and len-1", with or without
\* an output_key, and an empty payload is answered with a 4xx error; in both
\* cases nothing is mapped, downloaded, rendered or uploaded.
C29_BadIndexRejected ==
    IndexOutside \/ PayloadEmpty =>
        /\ pc \in {"endpoint", "run", "done"}
        /\ mapper = None /\ stages = <<>> /\ loc.out_key = None
        /\ pc = "done" =>
              IF PayloadEmpty THEN response.status \in 400..499
              ELSE response = Response(400, Str(<<"deal_index must be between 0 and ",
                                                  ToString(Len(Get(request.body, "payload").xs) - 1)>>))

-----------------------------------------------------------------------------
(* Two uploads to one bucket *)

\* two requests (fill-and-upload or fill-from-deal) whose documents are
\* rendered, each with its output_key, and the objects the bucket holds
InitUpload ==
    LET keys == {OutputKey, Str(<<"memos/D1", "_", "998", ".docx">>)}
        held == keys \cup {Str(<<"memos/D1", "_", "2", ".docx">>), Str(<<"memos/D1", "_", "999", ".docx">>)}
    IN  /\ request \in [Assemblies -> keys]
        /\ pc = [a \in Assemblies |-> "unique"]
        /\ loc = [a \in Assemblies |-> [out_key |-> None, bucket |-> {}]]
        /\ mapper = None
        /\ schema_data = None
        /\ ctx = None
        /\ pre_items = None
        /\ stages = <<>>
        /\ s3 \in SUBSET held
        /\ response = [a \in Assemblies |-> None]

\* out_key = get_unique_output_key(output_key) of request a: a key counts as
\* taken when head_object returns, as free when it raises for any reason, so
\* the call sees some of the objects the bucket holds; loc[a].bucket keeps
\* what the bucket held then
UniqueKeyOf(a) ==
    /\ pc[a] = "unique"
    /\ \E found \in SUBSET s3 :
          loc' = [loc EXCEPT ![a] = [out_key |-> get_unique_output_key(request[a], found), bucket |-> s3]]
    /\ pc' = [pc EXCEPT ![a] = "upload"]
    /\ UNCHANGED <<request, mapper, schema_data, ctx, pre_items, stages, s3, response>>

\* upload_to_s3(filled_bytes, out_key) of request a: put_object stores the
\* object under the key, replacing the object the key holds, or S3 fails;
\* stages logs the puts
UploadOf(a) ==
    /\ pc[a] = "upload"
    /\ \/ /\ s3' = s3 \cup {loc[a].out_key}
          /\ stages' = Append(stages, [key |-> loc[a].out_key, replaced |-> loc[a].out_key \in s3])
          /\ response' = [response EXCEPT ![a] = Response(200, loc[a].out_key)]
       \/ /\ response' = [response EXCEPT ![a] = Response(500, Str(<<"Failed to upload to S3: ", "<error>">>))]
          /\ UNCHANGED <<s3, stages>>
    /\ pc' = [pc EXCEPT ![a] = "done"]
    /\ UNCHANGED <<request, loc, mapper, schema_data, ctx, pre_items>>

SpecUpload == InitUpload /\ [][\E a \in Assemblies : UniqueKeyOf(a) \/ UploadOf(a)]_vars

\* C30: an upload never overwrites an existing object: the key
\* get_unique_output_key returns is the requested key when that is free and
\* is in every case a key that holds no object, no put replaces an object,
\* and the keys of the puts are pairwise distinct.
C30_UploadNeverOverwrites ==
    /\ \A a \in Assemblies :
          pc[a] # "unique" =>
             /\ loc[a].out_key \notin loc[a].bucket
             /\ request[a] \notin loc[a].bucket => loc[a].out_key = request[a]
    /\ \A i \in DOMAIN stages : ~stages[i].replaced
    /\ \A i, j \in DOMAIN stages : i # j => stages[i].key # stages[j].key

====
